---- MODULE Spec2Model ----
(***************************************************************************)
(* The room connection hub of realtimeChat (handlers/handleWSConnection.go) *)
(* as a state machine: the hub worker (Hub.run) with its three unbuffered   *)
(* channels, the per-connection read loops (handleClientMessages), the      *)
(* goroutines that post requests to the hub, and the presence pushes.       *)
(***************************************************************************)
EXTENDS Integers, Sequences, FiniteSets

\* ------------------------------------------------------------------ bounds

\* connections accepted during one run
NConn == 2
\* largest reading of the wall clock (time.Now().UnixNano()), readings 0..MaxClock
MaxClock == 1
\* envelopes created (join, leave and frame envelopes together)
MaxEnv == 2
\* auxiliary goroutines alive at one time: the posters of a forced unregister,
\* broadcastRoomUpdate and sendRoomUpdateToClient
MaxAux == 1
\* envelopes created in the runs the liveness claims are checked on
LiveMaxEnv == 1
MaxMsg == 1
MaxText == 1
MaxUpd == 2
\* the replies stored in the messages table
MaxReply == 2

Conns == 1..NConn
NoConn == 0
Rooms == {"general", "random"}
NoRoom == "-"

\* inbound frame types (the switch in handleClientMessages)
BroadcastTypes == {"message", "media", "delete", "reaction"}
FrameTypes == BroadcastTypes \cup {"ping", "request_room_update"}

\* answers of RoomService.CanUserAccessRoom: (true, nil), (false, nil), (_, err)
NoFrame == "-"

AccessResults == {"ok", "denied", "err"}

VARIABLES
    clock,      \* the last reading of the wall clock
    client,     \* client[c]: the models.Client record of connection c
    closed,     \* closed[c]: conn.Close() was called by the hub
    pc,         \* pc[c]: position of c's HandleWSConnection/handleClientMessages
    frame,      \* frame[c]: the access answer for the frame c's loop is handling
    rooms,      \* Hub.rooms: room name -> (client ID -> connection)
    sendq,      \* goroutines blocked on a send to a hub channel, in arrival order
    spawnB,     \* envelopes whose posting goroutine started and is not yet at its send
    spawnU,     \* spawnU[c]: goroutines started to post an unregister of c
    updq,       \* broadcastRoomUpdate goroutines started and not yet run
    push,       \* push[c]: sendRoomUpdateToClient goroutines for c, by position
    mu,         \* mu[c]: holder of client.Mutex
    hub,        \* the hub worker: the request in hand and its position
    inProgress, \* requests whose handler was entered and has not returned
    nenv,       \* envelopes created so far
    nposted,    \* broadcast requests that reached the send on Hub.broadcast
    recv,       \* recv[c]: envelopes written successfully to c, in order
    denials,    \* denials[c]: denial notices written to c by its read loop
    hand,       \* hand[c]: c's join handshake in HandleWSConnection
    db,         \* the rooms and room_members tables as the handshake sees them
    messageData, \* messageData[c]: the content of the frame c's loop is handling
    messages,   \* the messages table: UUID -> the row stored under it
    reactions,  \* the message_reactions table: its rows in the order of creation
    call,       \* call[c]: the service call the read loop of c is in
    updates,    \* the envelopes the service calls led to, in order
    replies,    \* the reply columns of the messages table, by UUID
    history,    \* the last answer of GET /api/rooms/:room/messages
    sending,    \* sending[c]: the sendRoomUpdateToClient goroutine for c
    tasks,      \* tasks[t]: the task t at Hub.mutex: its position and what it holds
    pushes,     \* the room updates that are built and not yet written
    retry       \* the call of retryOnDatabaseLock in progress

vars == <<clock, client, closed, pc, frame, rooms, sendq, spawnB, spawnU, updq,
          push, mu, hub, inProgress, nenv, nposted, recv, denials, hand, db,
          messageData, messages, reactions, call, updates, replies, history,
          sending, tasks, pushes, retry>>

\* the content of the frames and the messages table
frameVars == <<messageData, messages>>

\* the state of the join handshake and the content of the frames, which the
\* hub specification leaves alone
sideVars == <<hand, db, messageData, messages, reactions, call, updates, replies,
              history, sending, tasks, pushes, retry>>

\* the message_reactions table, the service calls and what they leave behind
reactVars == <<reactions, call, updates, replies, history, sending, tasks, pushes,
               retry>>

\* ------------------------------------------------------------------ helpers

EmptyMap == [x \in {} |-> NoConn]

\* an existing entry under k is kept
MapPutKeep(m, k, v) == [x \in DOMAIN m \cup {k} |-> IF x \in DOMAIN m THEN m[x] ELSE v]

\* m with key k set to v (Go: m[k] = v)
MapPut(m, k, v) == [x \in DOMAIN m \cup {k} |-> IF x = k THEN v ELSE m[x]]

\* m without key k (Go: delete(m, k))
MapDelete(m, k) == [x \in DOMAIN m \ {k} |-> m[x]]

Min(a, b) == IF a < b THEN a ELSE b

RECURSIVE SumOver(_, _)
SumOver(f, S) ==
    IF S = {} THEN 0
    ELSE LET x == CHOOSE y \in S : TRUE IN f[x] + SumOver(f, S \ {x})

\* how many entries of recv[c] carry envelope id
Copies(c, id) == Cardinality({i \in 1..Len(recv[c]) : recv[c][i].id = id})

\* generateClientID: fmt.Sprintf("client_%d", time.Now().UnixNano())
generateClientID(t) == <<"client_", t>>

NoEnv == [id |-> 0, room |-> NoRoom, stamp |-> 0]

IdleHub == [op |-> "idle", c |-> NoConn, env |-> NoEnv, removed |-> FALSE,
            snap |-> {}, todo |-> {}, failed |-> {}, cur |-> NoConn]

\* the connections stored in a room's member map
RoomConns(r) ==
    IF r \in DOMAIN rooms THEN {rooms[r][id] : id \in DOMAIN rooms[r]} ELSE {}

\* every connection stored in the directory
AllMembers == UNION {RoomConns(r) : r \in DOMAIN rooms}

\* Hub.mutex is write-locked: registerClient and unregisterClient hold it from
\* entry to return
WriteLocked == hub.op \in {"register", "unregister"}

\* sendRoomUpdateToClient goroutines alive
PushAlive == SumOver([c \in Conns |-> push[c].snap + push[c].lock], Conns)
             + Cardinality({c \in Conns : mu[c] = "push"})

\* goroutines alive that post a forced unregister
EvictAlive == SumOver(spawnU, Conns)
              + Cardinality({i \in 1..Len(sendq) :
                               sendq[i].ch = "unregister" /\ sendq[i].by = "go"})

AuxAlive == EvictAlive + updq + PushAlive

\* go broadcastRoomUpdate(room): one that does not fit the bound is a goroutine
\* that is never scheduled
StartUpdate(n) == IF AuxAlive < MaxAux THEN n + 1 ELSE n

\* ------------------------------------------------------------------ frames

\* the UUIDs of the messages table and a UUID that has no row
Uuids == 1..MaxMsg
NoRow == [sender |-> NoConn, room |-> NoRoom]

\* the fields of a frame the switch looks at: "missing" is a field that is
\* absent or not a string, a text is a sequence of characters with the ok of
\* its type assertion, mediaUrl tells whether the field holds a non-empty
\* string, emoji is empty when the field is absent, messageId is 0 when it is
\* absent or empty
Missing == "missing"
Emojis == {"+1", "heart"}
NoEmoji == ""
Chars == {" ", "a"}
NoText == [ok |-> FALSE, str |-> <<>>]
Texts == {[ok |-> TRUE, str |-> x] : x \in UNION {[1..n -> Chars] : n \in 0..MaxText}}
Actions == {Missing, "add", "remove", "toggle", "other"}
Data(t, x, m, i, e, a) ==
    [type |-> t, text |-> x, mediaUrl |-> m, messageId |-> i, emoji |-> e, action |-> a]
NoData == Data("-", NoText, FALSE, 0, NoEmoji, Missing)

\* the frames a client sends, by the case of the switch they reach; a frame
\* without a type and a frame of an unknown type reach the default case
Frames ==
    {Data(t, NoText, FALSE, 0, NoEmoji, Missing) : t \in {"ping", "request_room_update"}}
    \cup {Data("delete", NoText, FALSE, i, NoEmoji, Missing) : i \in 0..MaxMsg}
    \cup {Data("media", NoText, m, 0, NoEmoji, Missing) : m \in BOOLEAN}
    \cup {Data("reaction", NoText, FALSE, i, e, a) :
             i \in 0..MaxMsg, e \in Emojis \cup {NoEmoji}, a \in Actions}
    \cup {Data(t, x, FALSE, 0, NoEmoji, Missing) :
             t \in {"message", Missing, "other"}, x \in Texts \cup {NoText}}

\* ------------------------------------------------------------------ reactions

\* reply_to_id, reply_to_sender and reply_to_text of a message that is not a
\* reply (id 0: NULL)
NoReply == [id |-> 0, sender |-> "", text |-> ""]

\* the answer of a fetch of the room history that was not made
NoHistory == {}

\* a sendRoomUpdateToClient that is not running: snap is its copy of the
\* directory, answers what CanUserAccessRoom returned for the rooms of the copy
NoSending == [at |-> "idle", snap |-> EmptyMap, answers |-> EmptyMap]

\* the tasks that take Hub.mutex: the hub worker (registerClient,
\* unregisterClient, broadcastToRoom), broadcastRoomUpdate,
\* sendRoomUpdateToClient and the handler of GET /api/rooms
Tasks == {"worker", "fanout", "push", "listing"}

\* a task outside its section: held is "W" after Lock, "R" after RLock; seen
\* is what the task read in the directory
NoTask == [at |-> "idle", held |-> "-", c |-> NoConn, seen |-> EmptyMap]

\* no call of retryOnDatabaseLock: i is the loop counter, calls the outcomes
\* of the calls of the operation so far, left the outcomes to come
NoRetry == [at |-> "idle", max |-> 0, i |-> 0, calls |-> <<>>, left |-> <<>>,
            result |-> "-"]

\* a read loop that is in no reaction call: u is the user of the connection
\* (several connections can belong to one user)
NoCall == [u |-> NoConn, at |-> "idle", op |-> "-", m |-> 0, e |-> "-", reply |-> NoReply]

\* ------------------------------------------------------------------ Init

\* a handshake that has not read its join request
NoHand == [at |-> "start", room |-> NoRoom, ans |-> "-", err |-> "-", made |-> FALSE]

\* the value of the handshake state in the hub specification
InitSide ==
    /\ hand = [c \in Conns |-> NoHand]
    /\ db = [kind |-> [r \in Rooms |-> "none"], member |-> {}]
    /\ messageData = [c \in Conns |-> NoData]
    /\ messages = [u \in Uuids |-> NoRow]
    /\ reactions = <<>>
    /\ call = [c \in Conns |-> NoCall]
    /\ updates = <<>>
    /\ replies = [u \in Uuids |-> NoReply]
    /\ history = NoHistory
    /\ sending = [c \in Conns |-> NoSending]
    /\ tasks = [t \in Tasks |-> NoTask]
    /\ pushes = {}
    /\ retry = NoRetry

InitHub ==
    /\ clock = 0
    /\ client = [c \in Conns |-> [id |-> generateClientID(0), room |-> NoRoom]]
    /\ closed = [c \in Conns |-> FALSE]
    /\ pc = [c \in Conns |-> "new"]
    /\ frame = [c \in Conns |-> NoFrame]
    /\ rooms = EmptyMap
    /\ sendq = <<>>
    /\ spawnB = {}
    /\ spawnU = [c \in Conns |-> 0]
    /\ updq = 0
    /\ push = [c \in Conns |-> [snap |-> 0, lock |-> 0]]
    /\ mu = [c \in Conns |-> "free"]
    /\ hub = IdleHub
    /\ inProgress = {}
    /\ nenv = 0
    /\ nposted = 0
    /\ recv = [c \in Conns |-> <<>>]
    /\ denials = [c \in Conns |-> 0]

Init == InitHub /\ InitSide

\* ------------------------------------------------------------------ accept

\* HandleWSConnection, lines 351-362: build the client for room r with an ID
\* generated from the clock reading t (a reading may repeat the last one) and
\* block on the send to chatHub.register
Admit(c, r, t) ==
    /\ pc[c] = "new"
    /\ t >= clock
    /\ clock' = t
    /\ client' = [client EXCEPT ![c] = [id |-> generateClientID(t), room |-> r]]
    /\ sendq' = Append(sendq, [ch |-> "register", c |-> c, env |-> NoEnv, by |-> "accept"])
    /\ pc' = [pc EXCEPT ![c] = "reg"]
    /\ UNCHANGED <<closed, frame, rooms, spawnB, spawnU, updq, push, mu,
                   hub, inProgress, nenv, nposted, recv, denials>>

\* HandleWSConnection, once access was granted (the handshake is not followed:
\* connections are numbered in the order they are admitted)
Accept(c, r, t) ==
    /\ \A d \in Conns : d < c => pc[d] # "new"
    /\ Admit(c, r, t)
    /\ UNCHANGED sideVars

\* ------------------------------------------------------------------ hub worker

\* the worker takes a request while a handler is still running
HubAtSelectAlways == TRUE

\* Hub.run is at its select, no handler running
HubAtSelect == hub.op = "idle"

\* the receive wakes the sender that blocked last
LastOn(ch) ==
    LET I == {i \in 1..Len(sendq) : sendq[i].ch = ch}
    IN  CHOOSE i \in I : \A j \in I : i >= j

\* the sender that a receive on channel ch wakes: an unbuffered Go channel
\* queues its blocked senders first-in first-out
FirstOn(ch) ==
    LET I == {i \in 1..Len(sendq) : sendq[i].ch = ch}
    IN  CHOOSE i \in I : \A j \in I : i <= j

RemoveAt(s, i) == SubSeq(s, 1, i - 1) \o SubSeq(s, i + 1, Len(s))

\* where the sender of a received request goes on
AfterSend(by, old) ==
    CASE by = "accept"  -> "read"   \* go handleClientMessages(client, conn)
      [] by = "handler" -> "done"   \* the deferred unregister returned
      [] OTHER -> old

\* the fan-out ranges over the members of every room
SnapshotAll(r) == AllMembers

\* the member set broadcastToRoom ranges over: h.rooms[roomID] under RLock
Snapshot(r) == RoomConns(r)

\* the removal is not guarded by the test
FoundAlways(c) == c \in Conns

\* unregisterClient's test: the room exists and holds an entry under the
\* client's ID
Found(c) ==
    /\ c \in Conns
    /\ client[c].room \in DOMAIN rooms
    /\ client[c].id \in DOMAIN rooms[client[c].room]

\* one case of the select in Hub.run: the receive from channel ch; the handler
\* of the request is entered
HubReceive(ch) ==
    /\ HubAtSelect
    /\ \E i \in 1..Len(sendq) : sendq[i].ch = ch
    /\ LET i == FirstOn(ch)
           req == sendq[i]
           snap == IF ch = "broadcast" THEN Snapshot(req.env.room) ELSE {}
       IN  /\ sendq' = RemoveAt(sendq, i)
           /\ hub' = [IdleHub EXCEPT !.op = ch, !.c = req.c, !.env = req.env,
                                     !.removed = (ch = "unregister" /\ Found(req.c)),
                                     !.snap = snap, !.todo = snap]
           /\ inProgress' = inProgress \cup {[op |-> ch, c |-> req.c, id |-> req.env.id]}
           /\ pc' = IF req.c \in Conns
                    THEN [pc EXCEPT ![req.c] = AfterSend(req.by, @)]
                    ELSE pc

\* the handler returns to the select
\* the worker posts the follow-up requests itself and stays in the handler
HubStuck ==
    /\ hub' = [hub EXCEPT !.op = "posting"]
    /\ inProgress' = inProgress

HubReturn ==
    /\ hub' = IdleHub
    /\ inProgress' = inProgress \ {[op |-> hub.op, c |-> hub.c, id |-> hub.env.id]}

\* a new envelope is built (MessageService.CreateMessage succeeded and
\* ToResponse, or a delete response was built) for the bound room of client c,
\* and a goroutine is started to post it
CreateEnvelope(c) ==
    /\ nenv < MaxEnv
    /\ nenv' = nenv + 1
    /\ spawnB' = spawnB \cup {[id |-> nenv + 1, room |-> client[c].room, stamp |-> 0]}

\* case client := <-h.register; registerClient, first half: Lock, create the
\* room entry if it is missing
RecvRegister ==
    /\ HubReceive("register")
    /\ LET r == client[hub'.c].room
       IN  rooms' = IF r \in DOMAIN rooms THEN rooms ELSE MapPut(rooms, r, EmptyMap)
    /\ UNCHANGED <<clock, client, closed, frame, spawnB, spawnU, updq, push, mu,
                   nenv, nposted, recv>>
    /\ UNCHANGED <<denials, sideVars>>

\* registerClient, second half: add the client under its ID, then the database
\* calls; when they all succeed the join envelope is posted and a room update
\* is started; Unlock
RegisterEnd ==
    /\ hub.op = "register"
    /\ LET c == hub.c
           r == client[c].room
       IN  /\ rooms' = [rooms EXCEPT ![r] = MapPut(@, client[c].id, c)]
           /\ \E dbok \in BOOLEAN :
                IF dbok
                THEN /\ CreateEnvelope(c)
                     /\ updq' = StartUpdate(updq)
                ELSE UNCHANGED <<nenv, spawnB, updq>>
    /\ HubReturn
    /\ UNCHANGED <<clock, client, closed, pc, frame, sendq, spawnU, push, mu,
                   nposted, recv>>
    /\ UNCHANGED <<denials, sideVars>>

\* the empty room entry is kept
DropNever(rs, r) == rs

\* the room entry is dropped when its member map is empty
DropIfEmpty(rs, r) == IF DOMAIN rs[r] = {} THEN MapDelete(rs, r) ELSE rs

\* case client := <-h.unregister; unregisterClient, first half: Lock; when the
\* room has an entry under the client's ID, delete it, close the client's
\* connection, post the leave envelope when the database calls succeed, start
\* a room update
RecvUnregister ==
    /\ HubReceive("unregister")
    /\ LET c == hub'.c
           r == client[c].room
       IN  IF Found(c)
           THEN /\ rooms' = [rooms EXCEPT ![r] = MapDelete(@, client[c].id)]
                /\ closed' = [closed EXCEPT ![c] = TRUE]
                /\ \E dbok \in BOOLEAN :
                     IF dbok
                     THEN CreateEnvelope(c)
                     ELSE UNCHANGED <<nenv, spawnB>>
                /\ updq' = StartUpdate(updq)
           ELSE UNCHANGED <<rooms, closed, nenv, spawnB, updq>>
    /\ UNCHANGED <<clock, client, frame, spawnU, push, mu, nposted, recv>>
    /\ UNCHANGED <<denials, sideVars>>

\* unregisterClient, second half: remove the room if empty; Unlock
UnregisterEnd ==
    /\ hub.op = "unregister"
    /\ rooms' = IF hub.removed THEN DropIfEmpty(rooms, client[hub.c].room) ELSE rooms
    /\ HubReturn
    /\ UNCHANGED <<clock, client, closed, pc, frame, sendq, spawnB, spawnU,
                   updq, push, mu, nenv, nposted, recv>>
    /\ UNCHANGED <<denials, sideVars>>

\* ------------------------------------------------------------------ fan-out

\* the loop does not advance past c
VisitedNot(todo, c) == todo

\* the members left to visit after the range loop visited c
Visited(todo, c) == todo \ {c}

\* the failed member is not scheduled for unregister
EvictNever(u, c) == u

\* the write to c failed: go func(c) { h.unregister <- c }(client)
EvictOnError(u, c) == [u EXCEPT ![c] = @ + 1]

\* case message := <-h.broadcast; broadcastMessage -> broadcastToRoom: RLock,
\* look the room up (the member set read is hub.snap), marshal
RecvBroadcast ==
    /\ HubReceive("broadcast")
    /\ UNCHANGED <<clock, client, closed, frame, rooms, spawnB, spawnU, updq, push,
                   mu, nenv, nposted, recv>>
    /\ UNCHANGED <<denials, sideVars>>

\* the range loop reaches member c: client.Mutex.Lock(), WriteMessage starts
BroadcastLock(c) ==
    /\ hub.op = "broadcast" /\ hub.cur = NoConn
    /\ c \in hub.todo
    /\ mu[c] = "free"
    /\ mu' = [mu EXCEPT ![c] = "hub"]
    /\ hub' = [hub EXCEPT !.cur = c]
    /\ UNCHANGED <<clock, client, closed, pc, frame, rooms, sendq, spawnB,
                   spawnU, updq, push, inProgress, nenv, nposted, recv>>
    /\ UNCHANGED <<denials, sideVars>>

\* WriteMessage returns, client.Mutex.Unlock(); on an error a goroutine is
\* started to post the member's unregister; the loop goes on. A write to a
\* connection the hub closed fails; a write may fail (the peer is gone) while
\* the bound on auxiliary goroutines leaves room for the poster.
BroadcastWrite ==
    /\ hub.op = "broadcast" /\ hub.cur # NoConn
    /\ LET c == hub.cur
       IN  /\ \E ok \in BOOLEAN :
                IF ok
                THEN /\ ~closed[c]
                     /\ recv' = [recv EXCEPT ![c] =
                                   Append(@, [id |-> hub.env.id, stamp |-> hub.env.stamp])]
                     /\ hub' = [hub EXCEPT !.cur = NoConn, !.todo = Visited(hub.todo, c)]
                     /\ UNCHANGED spawnU
                ELSE /\ AuxAlive < MaxAux
                     /\ spawnU' = EvictOnError(spawnU, c)
                     /\ hub' = [hub EXCEPT !.cur = NoConn, !.todo = Visited(hub.todo, c),
                                           !.failed = @ \cup {c}]
                     /\ UNCHANGED recv
           /\ mu' = [mu EXCEPT ![c] = "free"]
    /\ UNCHANGED <<clock, client, closed, pc, frame, rooms, sendq, spawnB,
                   updq, push, inProgress, nenv, nposted>>
    /\ UNCHANGED <<denials, sideVars>>

\* the loop is over (or the room was not found): RUnlock, back to the select
BroadcastEnd ==
    /\ hub.op = "broadcast" /\ hub.cur = NoConn
    /\ hub.todo = {}
    /\ HubReturn
    /\ UNCHANGED <<clock, client, closed, pc, frame, rooms, sendq, spawnB,
                   spawnU, updq, push, mu, nenv, nposted, recv>>
    /\ UNCHANGED <<denials, sideVars>>

\* ------------------------------------------------------------------ posting goroutines

\* go func() { chatHub.broadcast <- &response }() reaches its send
PostBroadcast(e) ==
    /\ e \in spawnB
    /\ spawnB' = spawnB \ {e}
    /\ nposted' = nposted + 1
    /\ sendq' = Append(sendq, [ch |-> "broadcast", c |-> NoConn,
                               env |-> [e EXCEPT !.stamp = nposted + 1], by |-> "go"])
    /\ UNCHANGED <<clock, client, closed, pc, frame, rooms, spawnU, updq,
                   push, mu, hub, inProgress, nenv, recv>>
    /\ UNCHANGED <<denials, sideVars>>

\* go func(c) { h.unregister <- c }(client) reaches its send
PostEvict(c) ==
    /\ spawnU[c] > 0
    /\ spawnU' = [spawnU EXCEPT ![c] = @ - 1]
    /\ sendq' = Append(sendq, [ch |-> "unregister", c |-> c, env |-> NoEnv, by |-> "go"])
    /\ UNCHANGED <<clock, client, closed, pc, frame, rooms, spawnB, updq,
                   push, mu, hub, inProgress, nenv, nposted, recv>>
    /\ UNCHANGED <<denials, sideVars>>

\* ------------------------------------------------------------------ read loop

\* the read loop ends without its deferred send
PostNothing(c) ==
    /\ pc' = [pc EXCEPT ![c] = "unreg"]
    /\ sendq' = sendq

\* defer: chatHub.unregister <- client (blocks until the hub receives)
PostUnregister(c) ==
    /\ pc' = [pc EXCEPT ![c] = "unreg"]
    /\ sendq' = Append(sendq, [ch |-> "unregister", c |-> c, env |-> NoEnv, by |-> "handler"])

\* an access check that errors falls through to the switch
\* an error of the check ends the read loop like a denial
AfterCheckErrDenies(res) ==
    CASE res = "ok" -> "dispatch"
      [] OTHER      -> "deny"

AfterCheckFallThrough(res) ==
    CASE res = "denied" -> "deny"
      [] OTHER          -> "dispatch"

\* where the loop goes with the answer of CanUserAccessRoom
AfterCheck(res) ==
    CASE res = "err"    -> "read"      \* continue
      [] res = "denied" -> "deny"      \* WriteJSON the denial, return
      [] OTHER          -> "dispatch"

\* conn.ReadJSON returns a frame and the frame is revalidated, before its type
\* is looked at: roomService.CanUserAccessRoom(client.UserID, client.Room)
\* answers res
ReadJSON(c, res) ==
    /\ pc[c] = "read"
    /\ ~closed[c]
    /\ pc' = [pc EXCEPT ![c] = AfterCheck(res)]
    /\ frame' = [frame EXCEPT ![c] = IF pc'[c] = "read" THEN NoFrame ELSE res]
    /\ UNCHANGED <<clock, client, closed, rooms, sendq, spawnB, spawnU,
                   updq, push, mu, hub, inProgress, nenv, nposted, recv>>
    /\ UNCHANGED denials

\* the read loop of c reads a frame whose content is left open
ReadFrame(c, res) ==
    /\ ReadJSON(c, res)
    /\ UNCHANGED sideVars

\* conn.ReadJSON returns an error (peer closed, transport error, or the hub
\* closed the connection): break, the deferred unregister is posted
ReadError(c) ==
    /\ pc[c] = "read"
    /\ PostUnregister(c)
    /\ UNCHANGED <<clock, client, closed, frame, rooms, spawnB, spawnU, updq,
                   push, mu, hub, inProgress, nenv, nposted, recv>>
    /\ UNCHANGED <<denials, sideVars>>

\* conn.WriteJSON(gin.H{"error": ...}) starts: client.Mutex is not taken
DenyWriteBegin(c) ==
    /\ pc[c] = "deny"
    /\ pc' = [pc EXCEPT ![c] = "denying"]
    /\ denials' = [denials EXCEPT ![c] = @ + 1]
    /\ UNCHANGED sideVars
    /\ UNCHANGED <<clock, client, closed, frame, rooms, sendq, spawnB,
                   spawnU, updq, push, mu, hub, inProgress, nenv, nposted, recv>>

\* the denial write returns; return, the deferred unregister is posted
DenyWriteEnd(c) ==
    /\ pc[c] = "denying"
    /\ PostUnregister(c)
    /\ frame' = [frame EXCEPT ![c] = NoFrame]
    /\ UNCHANGED <<clock, client, closed, rooms, spawnB, spawnU, updq,
                   push, mu, hub, inProgress, nenv, nposted, recv>>
    /\ UNCHANGED <<denials, sideVars>>

\* a sendRoomUpdateToClient goroutine is started for every connection
StartPushAll(p, c) ==
    IF AuxAlive < MaxAux THEN [d \in Conns |-> [p[d] EXCEPT !.snap = @ + 1]] ELSE p

\* a sendRoomUpdateToClient goroutine is started for c (one that does not fit
\* the bound is a goroutine that is never scheduled)
StartPush(p, c) ==
    IF AuxAlive < MaxAux THEN [p EXCEPT ![c].snap = @ + 1] ELSE p

\* the switch on the type t of the frame in hand; stored tells whether a
\* broadcasting case got past its checks and its persistence call
Switch(c, t, stored) ==
    /\ pc[c] = "dispatch"
    /\ pc' = [pc EXCEPT ![c] = "read"]
    /\ frame' = [frame EXCEPT ![c] = NoFrame]
    /\ CASE t = "ping" ->
              UNCHANGED <<nenv, spawnB, push>>
         [] t = "request_room_update" ->
              /\ push' = StartPush(push, c)
              /\ UNCHANGED <<nenv, spawnB>>
         [] OTHER ->
              \* a domain error or a failed persistence call drops the frame
              /\ IF stored
                 THEN CreateEnvelope(c)
                 ELSE UNCHANGED <<nenv, spawnB>>
              /\ UNCHANGED push
    /\ UNCHANGED <<clock, client, closed, rooms, sendq, spawnU,
                   updq, mu, hub, inProgress, nposted, recv>>
    /\ UNCHANGED denials

\* the switch on a frame whose content is left open
Dispatch(c, t) ==
    /\ \E stored \in BOOLEAN : Switch(c, t, stored)
    /\ UNCHANGED sideVars

\* ------------------------------------------------------------------ presence

\* broadcastRoomUpdate: under RLock, go sendRoomUpdateToClient(client) for every
\* client of every room
RoomUpdate ==
    /\ updq > 0
    /\ ~WriteLocked
    /\ updq' = updq - 1
    /\ \E S \in SUBSET AllMembers :
         /\ Cardinality(S) = Min(Cardinality(AllMembers), MaxAux - AuxAlive + 1)
         /\ push' = [c \in Conns |->
                       IF c \in S THEN [push[c] EXCEPT !.snap = @ + 1] ELSE push[c]]
    /\ UNCHANGED <<clock, client, closed, pc, frame, rooms, sendq, spawnB,
                   spawnU, mu, hub, inProgress, nenv, nposted, recv>>
    /\ UNCHANGED <<denials, sideVars>>

\* sendRoomUpdateToClient: RLock, copy the rooms and counts, RUnlock, filter by
\* access, marshal
PushSnapshot(c) ==
    /\ push[c].snap > 0
    /\ ~WriteLocked
    /\ push' = [push EXCEPT ![c].snap = @ - 1, ![c].lock = @ + 1]
    /\ UNCHANGED <<clock, client, closed, pc, frame, rooms, sendq, spawnB,
                   spawnU, updq, mu, hub, inProgress, nenv, nposted, recv>>
    /\ UNCHANGED <<denials, sideVars>>

\* sendRoomUpdateToClient: client.Mutex.Lock(), WriteMessage starts
PushLock(c) ==
    /\ push[c].lock > 0
    /\ mu[c] = "free"
    /\ push' = [push EXCEPT ![c].lock = @ - 1]
    /\ mu' = [mu EXCEPT ![c] = "push"]
    /\ UNCHANGED <<clock, client, closed, pc, frame, rooms, sendq, spawnB,
                   spawnU, updq, hub, inProgress, nenv, nposted, recv>>
    /\ UNCHANGED <<denials, sideVars>>

\* sendRoomUpdateToClient: WriteMessage returns (an error is only logged),
\* client.Mutex.Unlock()
PushWrite(c) ==
    /\ mu[c] = "push"
    /\ mu' = [mu EXCEPT ![c] = "free"]
    /\ UNCHANGED <<clock, client, closed, pc, frame, rooms, sendq, spawnB,
                   spawnU, updq, push, hub, inProgress, nenv, nposted, recv>>
    /\ UNCHANGED <<denials, sideVars>>

\* ------------------------------------------------------------------ join handshake

\* RoomService.CanUserAccessRoom(userID, roomName) on the tables in db (the
\* user of connection c is user c): no row of that name is the error "record
\* not found"; a public room is open to anyone; a private room to a user with
\* a room_members row, active or not
CanUserAccessRoom(u, r) ==
    IF db.kind[r] = "none" THEN "notfound"
    ELSE IF db.kind[r] = "public" THEN "true"
    ELSE IF <<u, r>> \in db.member THEN "true" ELSE "false"

\* a query answers from the tables or fails with another error
Query(u, r, fail) == IF fail THEN "err" ELSE CanUserAccessRoom(u, r)

\* conn.Close() and return
CloseOut(h) == [h EXCEPT !.at = "closed"]

\* the answer false lets the connection in
GateOpen(res, first) ==
    CASE res \in {"true", "false"}   -> "granted"
      [] res = "notfound" /\ first -> "create"
      [] OTHER                     -> "closed"

\* where HandleWSConnection goes with an answer of CanUserAccessRoom: on the
\* first query "record not found" leads to the creation of the room, any
\* other error closes; true goes on to the registration, false to the denial
Gate(res, first) ==
    CASE res = "true"              -> "granted"
      [] res = "false"             -> "deny"
      [] res = "notfound" /\ first -> "create"
      [] OTHER                     -> "closed"

\* conn.ReadJSON(&joinReq) and CreateOrGetUser: the join request names room r;
\* when either fails the connection is closed
JoinRead(c, r, ok) ==
    /\ hand[c].at = "start"
    /\ hand' = [hand EXCEPT ![c] = IF ok THEN [@ EXCEPT !.at = "check", !.room = r]
                                        ELSE CloseOut(@)]
    /\ closed' = [closed EXCEPT ![c] = ~ok]
    /\ UNCHANGED <<clock, client, pc, frame, rooms, sendq, spawnB, spawnU, updq,
                   push, mu, hub, inProgress, nenv, nposted, recv, denials, db>>
    /\ UNCHANGED <<frameVars, reactVars>>

\* canAccess, err := roomService.CanUserAccessRoom(dbUser.ID, joinReq.RoomName),
\* the first query (first) or the one after the room was created
AccessQuery(c, first, fail) ==
    /\ hand[c].at = IF first THEN "check" ELSE "recheck"
    /\ LET res == Query(c, hand[c].room, fail)
           to == Gate(res, first)
       IN  /\ hand' = [hand EXCEPT ![c] = [@ EXCEPT !.at = to, !.ans = res]]
           /\ closed' = [closed EXCEPT ![c] = (to = "closed")]
    /\ UNCHANGED <<clock, client, pc, frame, rooms, sendq, spawnB, spawnU, updq,
                   push, mu, hub, inProgress, nenv, nposted, recv, denials, db>>
    /\ UNCHANGED <<frameVars, reactVars>>

\* roomService.CreateOrGetRoom(joinReq.RoomName): an existing room is returned
\* as it is, a missing one is created with IsPrivate at its default false; on
\* an error "Failed to create room" is written and the connection closed
CreateRoom(c, ok) ==
    /\ hand[c].at = "create"
    /\ LET r == hand[c].room
           missing == db.kind[r] = "none"
       IN  IF ok
           THEN /\ db' = [db EXCEPT !.kind[r] = IF missing THEN "public" ELSE @]
                /\ hand' = [hand EXCEPT ![c] = [@ EXCEPT !.at = "recheck", !.made = missing]]
                /\ UNCHANGED closed
           ELSE /\ hand' = [hand EXCEPT ![c] =
                               CloseOut([@ EXCEPT !.err = "Failed to create room"])]
                /\ closed' = [closed EXCEPT ![c] = TRUE]
                /\ UNCHANGED db
    /\ UNCHANGED <<clock, client, pc, frame, rooms, sendq, spawnB, spawnU, updq,
                   push, mu, hub, inProgress, nenv, nposted, recv, denials>>
    /\ UNCHANGED <<frameVars, reactVars>>

\* if !canAccess: the error is written, the connection closed, return
DenyConnect(c) ==
    /\ hand[c].at = "deny"
    /\ hand' = [hand EXCEPT ![c] = [@ EXCEPT !.at = "denied",
                                              !.err = "Access denied to this room"]]
    /\ closed' = [closed EXCEPT ![c] = TRUE]
    /\ UNCHANGED <<clock, client, pc, frame, rooms, sendq, spawnB, spawnU, updq,
                   push, mu, hub, inProgress, nenv, nposted, recv, denials, db>>
    /\ UNCHANGED <<frameVars, reactVars>>

\* access was granted: the client is built and posted for registration
AdmitGranted(c, t) ==
    /\ hand[c].at = "granted"
    /\ Admit(c, hand[c].room, t)
    /\ hand' = [hand EXCEPT ![c] = [@ EXCEPT !.at = "admitted"]]
    /\ UNCHANGED db
    /\ UNCHANGED <<frameVars, reactVars>>

\* what other requests do to the tables meanwhile: a private room is created
\* under a free name with user u as its member, a user is added to a private
\* room, a room is deleted with its member rows
DbCreatePrivate(r, u) ==
    /\ db.kind[r] = "none"
    /\ db' = [db EXCEPT !.kind[r] = "private", !.member = @ \cup {<<u, r>>}]
    /\ UNCHANGED <<clock, client, closed, pc, frame, rooms, sendq, spawnB, spawnU,
                   updq, push, mu, hub, inProgress, nenv, nposted, recv, denials, hand>>
    /\ UNCHANGED <<frameVars, reactVars>>

DbAddMember(r, u) ==
    /\ db.kind[r] = "private"
    /\ <<u, r>> \notin db.member
    /\ db' = [db EXCEPT !.member = @ \cup {<<u, r>>}]
    /\ UNCHANGED <<clock, client, closed, pc, frame, rooms, sendq, spawnB, spawnU,
                   updq, push, mu, hub, inProgress, nenv, nposted, recv, denials, hand>>
    /\ UNCHANGED <<frameVars, reactVars>>

DbDeleteRoom(r) ==
    /\ db.kind[r] # "none"
    /\ db' = [db EXCEPT !.kind[r] = "none",
                        !.member = {m \in @ : m[2] # r}]
    /\ UNCHANGED <<clock, client, closed, pc, frame, rooms, sendq, spawnB, spawnU,
                   updq, push, mu, hub, inProgress, nenv, nposted, recv, denials, hand>>
    /\ UNCHANGED <<frameVars, reactVars>>

\* ------------------------------------------------------------------ the switch

\* the answers of the database to the calls of one frame: GetRoomByName or
\* GetRoomByID finds the room, db.Create stores the row, GetMessageByUUID loads
\* a row that exists, the updates of DeleteMessage or of the reaction call go
\* through, the room of the message is public or the user an active member
Answers == [room : BOOLEAN, create : BOOLEAN, load : BOOLEAN, op : BOOLEAN,
            member : BOOLEAN]

\* the answers to the calls the case t of the switch makes (a call that is not
\* made has no answer to vary)
AnswersFor(t) ==
    {env \in Answers :
        /\ t \notin {"message", "media"} => env.create
        /\ t \notin {"message", "media", "reaction"} => env.load /\ env.room
        /\ t \notin {"delete", "reaction"} => env.op
        /\ t # "reaction" => env.member}

\* a row that was deleted: its UUID is not given out again
GoneRow == [sender |-> NoConn, room |-> "gone"]
Exists(m, u) == m[u].sender # NoConn

\* uuid.New(): a UUID no row was ever stored under (0: the table is full)
NewUuid(m) ==
    IF \E u \in Uuids : m[u] = NoRow
    THEN CHOOSE u \in Uuids : m[u] = NoRow /\ \A v \in 1..(u - 1) : m[v] # NoRow
    ELSE 0

\* the text is taken as it is
TrimNothing(x) == x

\* strings.TrimSpace
RECURSIVE TrimSpace(_)
TrimSpace(x) ==
    IF x = <<>> THEN x
    ELSE IF Head(x) = " " THEN TrimSpace(Tail(x))
    ELSE IF x[Len(x)] = " " THEN TrimSpace(SubSeq(x, 1, Len(x) - 1))
    ELSE x

\* msgType, ok := messageData["type"].(string); if !ok { msgType = "message" }
msgType(d) == IF d.type = Missing THEN "message" ELSE d.type

\* the case of the switch a type reaches ("message" stands for default)
SwitchCase(t) ==
    IF t \in {"ping", "request_room_update", "delete", "media", "reaction"}
    THEN t ELSE "message"

\* db.Create(&message).Error == nil
Stored(ok) == ok

\* MessageService.CreateMessage for user c in room r: the row is created, then
\* loaded again with its associations; either step can fail, the second one
\* after the row was stored
CreateMessage(c, r, m, env) ==
    IF ~Stored(env.create)
    THEN [err |-> TRUE, messages |-> m, fits |-> TRUE]
    ELSE LET u == NewUuid(m)
         IN  IF u = 0
             THEN [err |-> TRUE, messages |-> m, fits |-> FALSE]
             ELSE [err |-> ~env.load,
                   messages |-> [m EXCEPT ![u] = [sender |-> c, room |-> r]],
                   fits |-> TRUE]

\* MessageService.DeleteMessage(uuid, userID): the row is looked up by UUID and
\* sender; the updates that follow can fail before the row is deleted
DeleteMessage(u, c, m, env) ==
    IF m[u].sender # c THEN [err |-> TRUE, messages |-> m]
    ELSE IF ~env.op THEN [err |-> TRUE, messages |-> m]
    ELSE [err |-> FALSE, messages |-> [m EXCEPT ![u] = GoneRow]]

\* what a case of the switch leaves behind: continue without a broadcast, or
\* the goroutine that posts the envelope
\* (fits: the row the case stores fits the table of the model)
Drop(m) == [post |-> FALSE, messages |-> m, fits |-> TRUE]
Post(m) == [post |-> TRUE, messages |-> m, fits |-> TRUE]
\* the envelope is posted whatever CreateMessage returned
AfterAnyway(res) == [post |-> TRUE, messages |-> res.messages, fits |-> res.fits]

\* if err != nil { continue }, else the goroutine that posts the envelope
After(res) == [post |-> ~res.err, messages |-> res.messages, fits |-> res.fits]

\* case "delete"
DeleteCase(c, d, m, env) ==
    IF d.messageId = 0 THEN Drop(m)
    ELSE LET res == DeleteMessage(d.messageId, c, m, env)
         IN  IF res.err THEN Drop(m) ELSE Post(res.messages)

\* case "media"
MediaCase(c, r, d, m, env) ==
    IF ~d.mediaUrl THEN Drop(m)
    ELSE IF ~env.room THEN Drop(m)
    ELSE After(CreateMessage(c, r, m, env))

\* the checks of case "reaction" without the comparison of the rooms and
\* without the membership test
ReactionChecksLoose(r, d, m, env) ==
    /\ d.messageId # 0
    /\ d.emoji # NoEmoji
    /\ Exists(m, d.messageId) /\ env.load
    /\ env.room
    /\ (IF d.action = Missing THEN "toggle" ELSE d.action) \in {"add", "remove", "toggle"}

\* case "reaction", up to the call of the service: the frame names a message
\* and an emoji, the message exists and is loaded, its room is found and is
\* the room the connection is bound to, the room is public or the user an
\* active member of it, the action is one of add, remove and toggle
ReactionChecks(r, d, m, env) ==
    /\ d.messageId # 0
    /\ d.emoji # NoEmoji
    /\ Exists(m, d.messageId) /\ env.load
    /\ env.room
    /\ m[d.messageId].room = r
    /\ env.member
    /\ (IF d.action = Missing THEN "toggle" ELSE d.action) \in {"add", "remove", "toggle"}

\* case "reaction"
ReactionCase(c, r, d, m, env) ==
    IF ~ReactionChecks(r, d, m, env) THEN Drop(m)
    ELSE IF ~env.op THEN Drop(m)
    ELSE Post(m)

\* default: a text message
TextCase(c, r, d, m, env) ==
    IF ~d.text.ok THEN Drop(m)
    ELSE IF TrimSpace(d.text.str) = <<>> THEN Drop(m)
    ELSE IF ~env.room THEN Drop(m)
    ELSE After(CreateMessage(c, r, m, env))

\* the switch on the frame d of connection c, which is in room r
Handle(c, r, d, m, env) ==
    CASE SwitchCase(msgType(d)) = "delete"   -> DeleteCase(c, d, m, env)
      [] SwitchCase(msgType(d)) = "media"    -> MediaCase(c, r, d, m, env)
      [] SwitchCase(msgType(d)) = "reaction" -> ReactionCase(c, r, d, m, env)
      [] SwitchCase(msgType(d)) = "message"  -> TextCase(c, r, d, m, env)
      [] OTHER                               -> Drop(m)

\* conn.ReadJSON(&messageData) returns the frame d, which is revalidated
ReadData(c, d, res) ==
    /\ ReadJSON(c, res)
    /\ messageData' = [messageData EXCEPT ![c] = IF pc'[c] = "read" THEN NoData ELSE d]
    /\ UNCHANGED <<hand, db, messages>>
    /\ UNCHANGED reactVars

\* the switch on the frame in hand, with the answers env of the database
HandleFrame(c, env) ==
    /\ LET d == messageData[c]
           eff == Handle(c, client[c].room, d, messages, env)
       IN  /\ eff.fits
           /\ Switch(c, SwitchCase(msgType(d)), eff.post)
           /\ messages' = eff.messages
    /\ messageData' = [messageData EXCEPT ![c] = NoData]
    /\ UNCHANGED <<hand, db>>
    /\ UNCHANGED reactVars

\* ------------------------------------------------------------------ reaction calls

\* a row of message_reactions
Row(m, u, e) == [m |-> m, u |-> u, e |-> e]

\* Where("message_id = ? AND user_id = ? AND emoji = ?").First(...).Error == nil
Find(T, k) == \E i \in DOMAIN T : T[i] = k

\* the table has no unique index
CreateUnchecked(T, k) == [err |-> FALSE, table |-> Append(T, k)]

\* db.Create(&reaction) under idx_message_reactions_unique: a second row with
\* the same message, user and emoji is refused
Create(T, k) ==
    IF Find(T, k) THEN [err |-> TRUE, table |-> T]
    ELSE [err |-> FALSE, table |-> Append(T, k)]

\* nothing is deleted
DeleteNone(T, k) == T

\* Where("message_id = ? AND user_id = ? AND emoji = ?").Delete(...)
Delete(T, k) == SelectSeq(T, LAMBDA r : r # k)

\* MessageService.AddReaction, RemoveReaction and ToggleReaction when the call
\* runs alone and the database answers
AddReaction(T, k) == IF Find(T, k) THEN T ELSE Create(T, k).table
RemoveReaction(T, k) == Delete(T, k)
ToggleReaction(T, k) == IF Find(T, k) THEN RemoveReaction(T, k) ELSE AddReaction(T, k)

\* Preload("Reactions") of GetMessageByUUID: the rows of message m
Preload(T, m) == SelectSeq(T, LAMBDA r : r.m = m)

\* the loop of ToResponse over m.Reactions, without Count++ and the appends
RECURSIVE SummariseFirst(_, _)
SummariseFirst(rows, acc) ==
    IF rows = <<>> THEN acc
    ELSE LET r == Head(rows)
         IN  IF r.e \in DOMAIN acc
             THEN SummariseFirst(Tail(rows), acc)
             ELSE SummariseFirst(Tail(rows),
                                 MapPut(acc, r.e, [count |-> 1, userID |-> <<r.u>>]))

\* the loop of ToResponse over m.Reactions: reactionMap
RECURSIVE Summarise(_, _)
Summarise(rows, acc) ==
    IF rows = <<>> THEN acc
    ELSE LET r == Head(rows)
         IN  IF r.e \in DOMAIN acc
             THEN Summarise(Tail(rows),
                            [acc EXCEPT ![r.e] = [count |-> @.count + 1,
                                                  userID |-> Append(@.userID, r.u)]])
             ELSE Summarise(Tail(rows),
                            MapPut(acc, r.e, [count |-> 1, userID |-> <<r.u>>]))

\* every emoji is reported once, with its first user
ToResponseFirst(rows) == SummariseFirst(rows, EmptyMap)

\* Message.ToResponse: the reaction summaries, by emoji
ToResponse(rows) == Summarise(rows, EmptyMap)

\* the reaction frames
ReactionFrames == {d \in Frames : d.type = "reaction"}

\* the reaction calls in progress
InCall == {c \in Conns : call[c].at # "idle"}

\* the row the call of c is about
CallKey(c) == Row(call[c].m, call[c].u, call[c].e)

\* the read loop of c is back at ReadJSON
BackToRead(c) ==
    /\ pc' = [pc EXCEPT ![c] = "read"]
    /\ messageData' = [messageData EXCEPT ![c] = NoData]
    /\ call' = [call EXCEPT ![c] = [@ EXCEPT !.at = "idle", !.op = "-", !.m = 0, !.e = "-",
                                          !.reply = NoReply]]

\* what a step of a reaction call leaves alone
ReactFrame ==
    UNCHANGED <<clock, client, closed, frame, rooms, sendq, spawnB, spawnU, updq,
                push, mu, hub, inProgress, nenv, nposted, recv, denials, hand, db,
                messages, replies, history, sending, tasks, pushes, retry>>

\* conn.ReadJSON returns a reaction frame d (as many frames are read as
\* envelopes fit the bound)
ReadReaction(c, d) ==
    /\ pc[c] = "read"
    /\ Len(updates) + Cardinality(InCall) < MaxUpd
    /\ pc' = [pc EXCEPT ![c] = "dispatch"]
    /\ messageData' = [messageData EXCEPT ![c] = d]
    /\ UNCHANGED <<reactions, call, updates>>
    /\ ReactFrame

\* IsUserMemberOfRoom for the room r of the message, asked for private rooms
Member(u, r) == db.kind[r] = "private" => <<u, r>> \in db.member

\* case "reaction" up to the switch on the action: a frame that fails a check
\* is dropped; ok tells whether the lookups answered
ReactionBegin(c, ok) ==
    /\ pc[c] = "dispatch"
    /\ call[c].at = "idle"
    /\ LET d == messageData[c]
           env == [room |-> ok, create |-> TRUE, load |-> ok, op |-> TRUE,
                   member |-> ok /\ Member(call[c].u, client[c].room)]
           action == IF d.action = Missing THEN "toggle" ELSE d.action
       IN  IF ReactionChecks(client[c].room, d, messages, env)
           THEN /\ call' = [call EXCEPT ![c] =
                              [@ EXCEPT !.op = action, !.m = d.messageId,
                                        !.e = d.emoji,
                                        !.at = CASE action = "add"    -> "check"
                                                 [] action = "remove" -> "delete"
                                                 [] OTHER             -> "toggle"]]
                /\ UNCHANGED <<pc, messageData>>
           ELSE BackToRead(c)
    /\ UNCHANGED <<reactions, updates>>
    /\ ReactFrame

\* ToggleReaction: the lookup of the row decides between RemoveReaction and
\* AddReaction
ToggleLookup(c) ==
    /\ call[c].at = "toggle"
    /\ call' = [call EXCEPT ![c].at = IF Find(reactions, CallKey(c)) THEN "delete" ELSE "check"]
    /\ UNCHANGED <<pc, messageData, reactions, updates>>
    /\ ReactFrame

\* AddReaction: the lookup of the row; a row that exists is left as it is
AddLookup(c) ==
    /\ call[c].at = "check"
    /\ call' = [call EXCEPT ![c].at = IF Find(reactions, CallKey(c)) THEN "load" ELSE "create"]
    /\ UNCHANGED <<pc, messageData, reactions, updates>>
    /\ ReactFrame

\* AddReaction: db.Create(&reaction); on an error the frame is dropped
AddCreate(c, ok) ==
    /\ call[c].at = "create"
    /\ LET res == Create(reactions, CallKey(c))
       IN  IF ok /\ ~res.err
           THEN /\ reactions' = res.table
                /\ call' = [call EXCEPT ![c].at = "load"]
                /\ UNCHANGED <<pc, messageData>>
           ELSE /\ BackToRead(c)
                /\ UNCHANGED reactions
    /\ UNCHANGED updates
    /\ ReactFrame

\* RemoveReaction: the Delete; on an error the frame is dropped
RemoveDelete(c, ok) ==
    /\ call[c].at = "delete"
    /\ IF ok
       THEN /\ reactions' = Delete(reactions, CallKey(c))
            /\ call' = [call EXCEPT ![c].at = "load"]
            /\ UNCHANGED <<pc, messageData>>
       ELSE /\ BackToRead(c)
            /\ UNCHANGED reactions
    /\ UNCHANGED updates
    /\ ReactFrame

\* return s.GetMessageByUUID(messageUUID); the reaction_update envelope is
\* built from the message and handed to the posting goroutine
LoadAndPost(c, ok) ==
    /\ call[c].at = "load"
    /\ updates' = IF ok
                  THEN Append(updates, [type |-> "reaction_update", by |-> c,
                                        m |-> call[c].m,
                                        reactions |-> ToResponse(Preload(reactions, call[c].m))])
                  ELSE updates
    /\ BackToRead(c)
    /\ UNCHANGED reactions
    /\ ReactFrame

\* ------------------------------------------------------------------ delete calls

\* the UUIDs of the messages table when messages are replied to and deleted
Rows == 1..(MaxReply + 1)

\* the message the delete frames and the replyTo blocks name
Target == CHOOSE u \in Rows : \A v \in Rows : u <= v

\* replyTo.sender and replyTo.text of a frame: the sender can be absent, which
\* leaves replyToSender at ""
ReplySenders == {"", "ann"}
ReplyText == "hi"

\* the lookup does not compare the sender
LookupAny(m, i, u) == Exists(m, i)

\* Where("uuid = ? AND sender_id = ?", uuid, userID).First(&message).Error == nil
Lookup(m, i, u) == Exists(m, i) /\ m[i].sender = u

\* Where("reply_to_id = ?", message.ID).Update("reply_to_id", nil): the columns
\* reply_to_sender and reply_to_text are not part of the update
Unlink(rp, i) ==
    [u \in DOMAIN rp |-> IF rp[u].id = i THEN [rp[u] EXCEPT !.id = 0] ELSE rp[u]]

\* Where("message_id = ?", message.ID).Delete(&models.MessageReaction{})
DeleteReactions(T, i) == SelectSeq(T, LAMBDA r : r.m # i)

\* the row stays in the table
KeepRow(m, i) == m

\* db.Unscoped().Delete(&message)
HardDelete(m, i) == [m EXCEPT ![i] = GoneRow]

\* a message that carries no replyTo
NoReplyInfo == [has |-> FALSE, id |-> 0, sender |-> "", text |-> ""]

\* Message.ToResponse: the replyTo of a row with the reply columns rp, m being
\* the rows Preload("ReplyTo") finds the replied message in
ReplyInfo(rp, m) ==
    IF rp.sender = "" THEN NoReplyInfo
    ELSE [has |-> TRUE,
          id |-> IF rp.id # 0 /\ Exists(m, rp.id) THEN rp.id ELSE 0,
          sender |-> rp.sender,
          text |-> rp.text]

\* what a step of a delete call, of a reply or of a fetch leaves alone
DeleteFrame ==
    UNCHANGED <<clock, client, closed, frame, rooms, sendq, spawnB, spawnU, updq,
                push, mu, hub, inProgress, nenv, nposted, denials, hand, db, sending,
                tasks, pushes, retry>>

\* conn.ReadJSON returns a delete frame that names the message i, and case
\* "delete" calls DeleteMessage
ReadDelete(c, i) ==
    /\ pc[c] = "read"
    /\ Len(updates) + Cardinality(InCall) < MaxUpd
    /\ pc' = [pc EXCEPT ![c] = "dispatch"]
    /\ messageData' = [messageData EXCEPT
                         ![c] = Data("delete", NoText, FALSE, i, NoEmoji, Missing)]
    /\ call' = [call EXCEPT ![c] = [@ EXCEPT !.at = "lookup", !.op = "delete", !.m = i]]
    /\ UNCHANGED <<messages, replies, reactions, updates, recv, history>>
    /\ DeleteFrame

\* DeleteMessage: the row is looked up by UUID and sender; without a row the
\* call returns an error and the frame is dropped
DeleteLookup(c, ok) ==
    /\ call[c].at = "lookup"
    /\ IF ok /\ Lookup(messages, call[c].m, call[c].u)
       THEN /\ call' = [call EXCEPT ![c].at = "unlink"]
            /\ UNCHANGED <<pc, messageData>>
       ELSE BackToRead(c)
    /\ UNCHANGED <<messages, replies, reactions, updates, recv, history>>
    /\ DeleteFrame

\* DeleteMessage after the lookup: the reply links to the message are cleared,
\* then its reactions are deleted, then the row is; the three statements are
\* not in a transaction, and one that fails ends the call with an error after
\* the ones before it took effect
DeleteStep(c, ok) ==
    /\ call[c].at \in {"unlink", "unreact", "remove"}
    /\ IF ~ok
       THEN /\ BackToRead(c)
            /\ UNCHANGED <<messages, replies, reactions>>
       ELSE /\ replies' = IF call[c].at = "unlink" THEN Unlink(replies, call[c].m)
                          ELSE replies
            /\ reactions' = IF call[c].at = "unreact"
                            THEN DeleteReactions(reactions, call[c].m)
                            ELSE reactions
            /\ messages' = IF call[c].at = "remove" THEN HardDelete(messages, call[c].m)
                           ELSE messages
            /\ call' = [call EXCEPT ![c].at = CASE call[c].at = "unlink"  -> "unreact"
                                                [] call[c].at = "unreact" -> "remove"
                                                [] OTHER                  -> "post"]
            /\ UNCHANGED <<pc, messageData>>
    /\ UNCHANGED <<updates, recv, history>>
    /\ DeleteFrame

\* DeleteMessage returned nil: the delete envelope is built and handed to the
\* posting goroutine
DeletePost(c) ==
    /\ call[c].at = "post"
    /\ updates' = Append(updates, [type |-> "delete", by |-> c, m |-> call[c].m,
                                   reactions |-> EmptyMap])
    /\ BackToRead(c)
    /\ UNCHANGED <<messages, replies, reactions, recv, history>>
    /\ DeleteFrame

\* conn.ReadJSON returns a text frame with a replyTo that names Target and
\* carries the sender s; GetMessageIDByUUID resolves the link (found), which
\* stays nil when the message is not found (as many replies are read as rows
\* fit the table)
ReadReply(c, s, found) ==
    /\ pc[c] = "read"
    /\ Len(updates) + Cardinality(InCall) < MaxUpd
    /\ Cardinality({u \in Rows : messages[u] = NoRow})
         > Cardinality({x \in Conns : call[x].at = "insert"})
    /\ pc' = [pc EXCEPT ![c] = "dispatch"]
    /\ messageData' = [messageData EXCEPT
                         ![c] = Data("message", [ok |-> TRUE, str |-> <<"a">>], FALSE, 0,
                                     NoEmoji, Missing)]
    /\ call' = [call EXCEPT ![c] =
                  [@ EXCEPT !.at = "insert", !.op = "reply",
                            !.reply = [id |-> IF found /\ Exists(messages, Target)
                                              THEN Target ELSE 0,
                                       sender |-> s, text |-> ReplyText]]]
    /\ UNCHANGED <<messages, replies, reactions, updates, recv, history>>
    /\ DeleteFrame

\* CreateMessage with the reply columns the handler computed: the row is
\* stored (foreign keys are not enforced: the DSN sets no pragma), loaded
\* again, and its envelope handed to the posting goroutine
ReplyCreate(c, ok, loaded) ==
    /\ call[c].at = "insert"
    /\ IF ~Stored(ok)
       THEN UNCHANGED <<messages, replies, updates>>
       ELSE LET u == CHOOSE v \in Rows :
                        messages[v] = NoRow /\ \A w \in Rows : messages[w] = NoRow => v <= w
            IN  /\ messages' = [messages EXCEPT
                                  ![u] = [sender |-> call[c].u, room |-> client[c].room]]
                /\ replies' = [replies EXCEPT ![u] = call[c].reply]
                /\ updates' = IF loaded
                              THEN Append(updates, [type |-> "message", by |-> c, m |-> u,
                                                    reactions |-> EmptyMap])
                              ELSE updates
    /\ BackToRead(c)
    /\ UNCHANGED <<reactions, recv, history>>
    /\ DeleteFrame

\* broadcastToRoom writes the envelope n to the member c
Deliver(c, n) ==
    /\ n \in DOMAIN updates
    /\ \A i \in DOMAIN recv[c] : recv[c][i] # n
    /\ recv' = [recv EXCEPT ![c] = Append(@, n)]
    /\ UNCHANGED <<pc, messageData, call, messages, replies, reactions, updates, history>>
    /\ DeleteFrame

\* GET /api/rooms/:room/messages for the room of c: GetRoomMessages reads the
\* rows of the room, ToResponse turns each into its envelope
FetchHistory(c) ==
    /\ history' = {[m |-> u, replyTo |-> ReplyInfo(replies[u], messages)] :
                      u \in {v \in Rows : /\ Exists(messages, v)
                                          /\ messages[v].room = client[c].room}}
    /\ history' # history
    /\ UNCHANGED <<pc, messageData, call, messages, replies, reactions, updates, recv>>
    /\ DeleteFrame

\* ------------------------------------------------------------------ room updates

\* the member names of a directory entry in the orders a range over the map
\* can produce (the Name of a connection is its user's)
NameLists(room) ==
    {[i \in 1..Cardinality(DOMAIN room) |-> call[room[f[i]]].u] :
        f \in {g \in [1..Cardinality(DOMAIN room) -> DOMAIN room] :
                 \A i, j \in DOMAIN g : g[i] = g[j] => i = j}}

\* a room whose access check did not answer false is listed
ListedUnlessFalse(ans) == ans # "false"

\* if err != nil { continue }; if canAccess { rooms = append(rooms, ...) }
Listed(ans) == ans = "true"

\* what a step of sendRoomUpdateToClient or a change of the directory leaves
\* alone
UpdateFrame ==
    UNCHANGED <<clock, closed, pc, frame, sendq, spawnB, spawnU, updq, push, mu,
                hub, inProgress, nenv, nposted, recv, denials, hand, messageData,
                messages, reactions, call, replies, history, tasks, pushes, retry>>

\* sendRoomUpdateToClient(c), up to RUnlock: under Hub.mutex the names and the
\* count of every room of the directory are copied (as many updates are sent
\* as fit the bound)
SendSnapshot(c) ==
    /\ sending[c].at = "idle"
    /\ Len(updates) < MaxUpd
    /\ \E names \in [DOMAIN rooms -> UNION {NameLists(rooms[r]) : r \in DOMAIN rooms}] :
         /\ \A r \in DOMAIN rooms : names[r] \in NameLists(rooms[r])
         /\ sending' = [sending EXCEPT
                          ![c] = [at |-> "filter",
                                  snap |-> [r \in DOMAIN rooms |->
                                              [clients |-> names[r],
                                               count |-> Cardinality(DOMAIN rooms[r])]],
                                  answers |-> EmptyMap]]
    /\ UNCHANGED <<client, rooms, db, updates>>
    /\ UpdateFrame

\* the loop over the copy: CanUserAccessRoom(client.UserID, rName) for a room
\* of the copy that was not checked yet
SendCheck(c, r, fail) ==
    /\ sending[c].at = "filter"
    /\ r \in DOMAIN sending[c].snap \ DOMAIN sending[c].answers
    /\ sending' = [sending EXCEPT
                     ![c].answers = MapPut(@, r, Query(call[c].u, r, fail))]
    /\ UNCHANGED <<client, rooms, db, updates>>
    /\ UpdateFrame

\* the rooms of the update: name, clients and count of every room of the copy
\* that is listed
RoomList(sn) ==
    {[name |-> r, clients |-> sn.snap[r].clients, count |-> sn.snap[r].count] :
        r \in {x \in DOMAIN sn.snap : Listed(sn.answers[x])}}

\* the loop is over: the update is marshalled and written to the connection
\* (an error of the write is only logged)
SendWrite(c) ==
    /\ sending[c].at = "filter"
    /\ DOMAIN sending[c].answers = DOMAIN sending[c].snap
    /\ updates' = Append(updates, [type |-> "room_update", to |-> c,
                                   rooms |-> RoomList(sending[c])])
    /\ sending' = [sending EXCEPT ![c] = NoSending]
    /\ UNCHANGED <<client, rooms, db>>
    /\ UpdateFrame

\* registerClient and unregisterClient hold Hub.mutex from entry to return:
\* for a reader under RLock a connection joins room r, or leaves its room, in
\* one step
DirectoryJoin(c, r) ==
    /\ client[c].room = NoRoom
    /\ client' = [client EXCEPT ![c].room = r]
    /\ rooms' = MapPut(rooms, r, MapPut(IF r \in DOMAIN rooms THEN rooms[r] ELSE EmptyMap,
                                        client[c].id, c))
    /\ UNCHANGED <<db, updates, sending>>
    /\ UpdateFrame

DirectoryLeave(c) ==
    /\ client[c].room # NoRoom
    /\ client' = [client EXCEPT ![c].room = NoRoom]
    /\ rooms' = DropIfEmpty([rooms EXCEPT ![client[c].room] = MapDelete(@, client[c].id)],
                            client[c].room)
    /\ UNCHANGED <<db, updates, sending>>
    /\ UpdateFrame

\* ------------------------------------------------------------------ Hub.mutex

\* every request for the read lock is granted
RLockAlways(T) == TRUE

\* h.mutex.RLock() returns: no task holds the write lock
RLockFree(T) == \A t \in Tasks : T[t].held # "W"

\* h.mutex.Lock() returns: no task holds the lock
LockFree(T) == \A t \in Tasks : T[t].held = "-"

\* what a step at Hub.mutex leaves alone
LockFrame ==
    UNCHANGED <<clock, closed, pc, frame, sendq, spawnB, spawnU, updq, push, mu,
                hub, inProgress, nenv, nposted, recv, denials, hand, db, messageData,
                messages, reactions, call, updates, replies, history, sending,
                pushes, retry>>

\* what a task sees of the directory: the member IDs of every room
Seen == [r \in DOMAIN rooms |-> DOMAIN rooms[r]]

\* a task that reads the directory enters its section: RLock in
\* broadcastToRoom (the worker), broadcastRoomUpdate, sendRoomUpdateToClient
\* and GetRooms
ReaderLock(t) ==
    /\ tasks[t].at = "idle"
    /\ RLockFree(tasks)
    /\ tasks' = [tasks EXCEPT ![t] = [@ EXCEPT !.at = "range", !.held = "R"]]
    /\ UNCHANGED <<client, rooms>>
    /\ LockFrame

\* the range over the directory (the lookup of the room in broadcastToRoom)
ReaderRange(t) ==
    /\ tasks[t].at = "range"
    /\ tasks' = [tasks EXCEPT ![t] = [@ EXCEPT !.at = "unlock", !.seen = Seen]]
    /\ UNCHANGED <<client, rooms>>
    /\ LockFrame

\* RUnlock: at the end of the copy in sendRoomUpdateToClient, deferred to the
\* return in the other readers
ReaderUnlock(t) ==
    /\ tasks[t].at = "unlock"
    /\ tasks[t].held = "R"
    /\ tasks' = [tasks EXCEPT ![t] = NoTask]
    /\ UNCHANGED <<client, rooms>>
    /\ LockFrame

\* case client := <-h.register or <-h.unregister: the worker enters
\* registerClient for a connection c bound to room r, or unregisterClient for
\* a registered connection, and takes the write lock
WorkerLock(c, r) ==
    /\ tasks["worker"].at = "idle"
    /\ LockFree(tasks)
    /\ IF client[c].room = NoRoom
       THEN /\ client' = [client EXCEPT ![c].room = r]
            /\ tasks' = [tasks EXCEPT !["worker"] =
                           [@ EXCEPT !.at = "register", !.held = "W", !.c = c]]
       ELSE /\ UNCHANGED client
            /\ tasks' = [tasks EXCEPT !["worker"] =
                           [@ EXCEPT !.at = "unregister", !.held = "W", !.c = c]]
    /\ UNCHANGED rooms
    /\ LockFrame

\* registerClient: the room entry is made if it is missing, then the client is
\* added under its ID; unregisterClient: the client is deleted, then the room
\* if it is empty
WorkerWrite ==
    /\ tasks["worker"].at \in {"register", "add", "unregister", "drop"}
    /\ LET c == tasks["worker"].c
           r == client[c].room
           at == tasks["worker"].at
       IN  /\ rooms' = CASE at = "register" ->
                              IF r \in DOMAIN rooms THEN rooms ELSE MapPut(rooms, r, EmptyMap)
                         [] at = "add" -> [rooms EXCEPT ![r] = MapPut(@, client[c].id, c)]
                         [] at = "unregister" ->
                              [rooms EXCEPT ![r] = MapDelete(@, client[c].id)]
                         [] OTHER -> DropIfEmpty(rooms, r)
           /\ client' = IF at = "drop" THEN [client EXCEPT ![c].room = NoRoom] ELSE client
           /\ tasks' = [tasks EXCEPT !["worker"].at =
                          CASE at = "register"   -> "add"
                            [] at = "unregister" -> "drop"
                            [] OTHER             -> "unlock"]
    /\ LockFrame

\* the deferred h.mutex.Unlock()
WorkerUnlock ==
    /\ tasks["worker"].at = "unlock"
    /\ tasks["worker"].held = "W"
    /\ tasks' = [tasks EXCEPT !["worker"] = NoTask]
    /\ UNCHANGED <<client, rooms>>
    /\ LockFrame

\* ------------------------------------------------------------------ specification

Next ==
    \/ \E c \in Conns, r \in Rooms, t \in 0..MaxClock : Accept(c, r, t)
    \/ RecvRegister
    \/ RegisterEnd
    \/ RecvUnregister
    \/ UnregisterEnd
    \/ RecvBroadcast
    \/ \E c \in Conns : BroadcastLock(c)
    \/ BroadcastWrite
    \/ BroadcastEnd
    \/ \E e \in spawnB : PostBroadcast(e)
    \/ \E c \in Conns : PostEvict(c)
    \/ \E c \in Conns, res \in AccessResults : ReadFrame(c, res)
    \/ \E c \in Conns : ReadError(c)
    \/ \E c \in Conns : DenyWriteBegin(c)
    \/ \E c \in Conns : DenyWriteEnd(c)
    \/ \E c \in Conns, t \in FrameTypes : Dispatch(c, t)
    \/ RoomUpdate
    \/ \E c \in Conns : PushSnapshot(c)
    \/ \E c \in Conns : PushLock(c)
    \/ \E c \in Conns : PushWrite(c)

Spec == Init /\ [][Next]_vars

\* The join handshake of HandleWSConnection with the hub registering the
\* connections it admits; the read loops are not followed.
ConnectNext ==
    \/ \E c \in Conns, r \in Rooms, ok \in BOOLEAN : JoinRead(c, r, ok)
    \/ \E c \in Conns, first, fail \in BOOLEAN : AccessQuery(c, first, fail)
    \/ \E c \in Conns, ok \in BOOLEAN : CreateRoom(c, ok)
    \/ \E c \in Conns : DenyConnect(c)
    \/ \E c \in Conns, t \in 0..MaxClock : AdmitGranted(c, t)
    \/ \E r \in Rooms, u \in Conns : DbCreatePrivate(r, u)
    \/ \E r \in Rooms, u \in Conns : DbAddMember(r, u)
    \/ \E r \in Rooms : DbDeleteRoom(r)
    \/ RecvRegister
    \/ RegisterEnd

ConnectSpec == Init /\ [][ConnectNext]_vars

\* The read loops with the content of their frames: connections are accepted
\* and registered, their frames pass the access check or are skipped by it,
\* and the envelopes are taken as far as the start of the goroutine that
\* posts them. Reading a
\* frame touches only the loop that reads it, so it commutes with the steps of
\* the other loops; the frames are therefore taken one at a time.
FrameNext ==
    \/ \E c \in Conns, r \in Rooms : Accept(c, r, c - 1)
    \/ RecvRegister
    \/ RegisterEnd
    \/ \E c \in Conns, d \in Frames, res \in {"ok", "err"} :
         /\ \A e \in Conns \ {c} : pc[e] # "dispatch"
         /\ ReadData(c, d, res)
    \/ \E c \in Conns :
         \E env \in AnswersFor(SwitchCase(msgType(messageData[c]))) : HandleFrame(c, env)
    \/ RoomUpdate
    \/ \E c \in Conns : PushSnapshot(c)
    \/ \E c \in Conns : PushLock(c)
    \/ \E c \in Conns : PushWrite(c)

FrameSpec == Init /\ [][FrameNext]_vars

\* The scheduling the liveness claims rely on. Every goroutine that can run is
\* run in the end: the handlers of the hub worker, the goroutines that post a
\* forced unregister, the denial write of a read loop and the write of a
\* presence push (which gives client.Mutex back). The select of Hub.run picks
\* among its ready cases at random, so a case that is ready again and again is
\* taken in the end; sync.Mutex hands the lock to a waiter that was passed
\* over (starvation mode), so the fan-out gets client.Mutex in the end. Accepts, peers sending frames or going away, and the
\* start of presence pushes are under no obligation.
Fairness ==
    /\ SF_vars(RecvRegister) /\ SF_vars(RecvUnregister) /\ SF_vars(RecvBroadcast)
    /\ WF_vars(RegisterEnd) /\ WF_vars(UnregisterEnd)
    /\ SF_vars(\E c \in Conns : BroadcastLock(c))
    /\ WF_vars(BroadcastWrite) /\ WF_vars(BroadcastEnd)
    /\ WF_vars(\E c \in Conns : PostEvict(c))
    /\ WF_vars(\E c \in Conns : DenyWriteBegin(c))
    /\ WF_vars(\E c \in Conns : DenyWriteEnd(c))
    /\ WF_vars(\E c \in Conns : PushWrite(c))

\* the rooms joined in the runs the liveness claims are checked on
LiveRooms == {"general"}

\* The steps of Next with at most LiveMaxEnv envelopes created and every
\* connection joining a room of LiveRooms: the liveness claims are checked on
\* the runs in which the persistence calls of later joins, leaves and frames
\* fail.
LiveNext ==
    \/ \E c \in Conns, r \in LiveRooms, t \in 0..MaxClock : Accept(c, r, t)
    \/ RecvRegister
    \/ RegisterEnd /\ nenv' <= LiveMaxEnv
    \/ RecvUnregister /\ nenv' <= LiveMaxEnv
    \/ UnregisterEnd
    \/ RecvBroadcast
    \/ \E c \in Conns : BroadcastLock(c)
    \/ BroadcastWrite
    \/ BroadcastEnd
    \/ \E e \in spawnB : PostBroadcast(e)
    \/ \E c \in Conns : PostEvict(c)
    \/ \E c \in Conns, res \in AccessResults : ReadFrame(c, res)
    \/ \E c \in Conns : ReadError(c)
    \/ \E c \in Conns : DenyWriteBegin(c)
    \/ \E c \in Conns : DenyWriteEnd(c)
    \/ \E c \in Conns, t \in FrameTypes : Dispatch(c, t) /\ nenv' <= LiveMaxEnv
    \/ RoomUpdate
    \/ \E c \in Conns : PushSnapshot(c)
    \/ \E c \in Conns : PushLock(c)
    \/ \E c \in Conns : PushWrite(c)

LiveSpec == Init /\ [][LiveNext]_vars /\ Fairness

\* the user with the lowest ID
FirstUser == CHOOSE u \in Conns : \A v \in Conns : u <= v

\* The reaction calls of the read loops. Every connection is registered in a
\* room and reading: the first connection is the first user's and is in room
\* general, the others belong to any user and are in any room; general is
\* public or private, the first user is a member of every private room and
\* the others of none; a message exists in some room or in none.
ReactInit ==
    /\ clock = NConn - 1
    /\ \E rm \in {f \in [Conns -> Rooms] : f[FirstUser] = "general"} :
         /\ client = [c \in Conns |-> [id |-> generateClientID(c - 1), room |-> rm[c]]]
         /\ rooms = [r \in {rm[c] : c \in Conns} |->
                       [id \in {generateClientID(c - 1) : c \in {x \in Conns : rm[x] = r}} |->
                          CHOOSE c \in Conns : generateClientID(c - 1) = id]]
    /\ closed = [c \in Conns |-> FALSE]
    /\ pc = [c \in Conns |-> "read"]
    /\ frame = [c \in Conns |-> NoFrame]
    /\ sendq = <<>>
    /\ spawnB = {}
    /\ spawnU = [c \in Conns |-> 0]
    /\ updq = 0
    /\ push = [c \in Conns |-> [snap |-> 0, lock |-> 0]]
    /\ mu = [c \in Conns |-> "free"]
    /\ hub = IdleHub
    /\ inProgress = {}
    /\ nenv = 0
    /\ nposted = 0
    /\ recv = [c \in Conns |-> <<>>]
    /\ denials = [c \in Conns |-> 0]
    /\ hand = [c \in Conns |-> NoHand]
    /\ \E k \in {"public", "private"} :
         db = [kind |-> [r \in Rooms |-> IF r = "general" THEN k ELSE "public"],
               member |-> {<<FirstUser, r>> : r \in Rooms}]
    /\ messageData = [c \in Conns |-> NoData]
    /\ \E r \in Rooms \cup {NoRoom} :
         messages = [u \in Uuids |->
                       IF r = NoRoom THEN NoRow ELSE [sender |-> FirstUser, room |-> r]]
    /\ reactions = <<>>
    /\ \E us \in {f \in [Conns -> Conns] : f[FirstUser] = FirstUser} : call = [c \in Conns |-> [NoCall EXCEPT !.u = us[c]]]
    /\ updates = <<>>
    /\ replies = [u \in Uuids |-> NoReply]
    /\ history = NoHistory
    /\ sending = [c \in Conns |-> NoSending]
    /\ tasks = [t \in Tasks |-> NoTask]
    /\ pushes = {}
    /\ retry = NoRetry

\* Reading a frame touches only the loop that reads it, so the frames are
\* read and checked one at a time; the calls they lead to interleave.
ReactNext ==
    \/ \E c \in Conns, d \in ReactionFrames :
         /\ \A x \in Conns \ {c} : pc[x] = "dispatch" => call[x].at # "idle"
         /\ ReadReaction(c, d)
    \/ \E c \in Conns, ok \in BOOLEAN : ReactionBegin(c, ok)
    \/ \E c \in Conns : ToggleLookup(c)
    \/ \E c \in Conns : AddLookup(c)
    \/ \E c \in Conns, ok \in BOOLEAN : AddCreate(c, ok)
    \/ \E c \in Conns, ok \in BOOLEAN : RemoveDelete(c, ok)
    \/ \E c \in Conns, ok \in BOOLEAN : LoadAndPost(c, ok)

ReactSpec == ReactInit /\ [][ReactNext]_vars

\* The delete calls, the replies and the fetches of one room. The connections
\* are registered in room general and reading; Target is stored, sent by any
\* user; a reply to it can be stored, with or without a sender in its
\* snapshot, and so can a reaction to it; one read loop can be inside
\* AddReaction for Target, past the lookups and before db.Create.
DeleteInit ==
    /\ clock = NConn - 1
    /\ client = [c \in Conns |-> [id |-> generateClientID(c - 1), room |-> "general"]]
    /\ rooms = [r \in {"general"} |->
                  [id \in {generateClientID(c - 1) : c \in Conns} |->
                     CHOOSE c \in Conns : generateClientID(c - 1) = id]]
    /\ closed = [c \in Conns |-> FALSE]
    /\ frame = [c \in Conns |-> NoFrame]
    /\ sendq = <<>>
    /\ spawnB = {}
    /\ spawnU = [c \in Conns |-> 0]
    /\ updq = 0
    /\ push = [c \in Conns |-> [snap |-> 0, lock |-> 0]]
    /\ mu = [c \in Conns |-> "free"]
    /\ hub = IdleHub
    /\ inProgress = {}
    /\ nenv = 0
    /\ nposted = 0
    /\ recv = [c \in Conns |-> <<>>]
    /\ denials = [c \in Conns |-> 0]
    /\ hand = [c \in Conns |-> NoHand]
    /\ db = [kind |-> [r \in Rooms |-> "public"], member |-> {}]
    /\ \E owner \in Conns, pre \in {S \in SUBSET ReplySenders : Cardinality(S) <= 1} :
         /\ messages = [u \in Rows |->
                          IF u = Target THEN [sender |-> owner, room |-> "general"]
                          ELSE IF u = Target + 1 /\ pre # {}
                               THEN [sender |-> FirstUser, room |-> "general"]
                               ELSE NoRow]
         /\ replies = [u \in Rows |->
                         IF u = Target + 1 /\ pre # {}
                         THEN [id |-> Target, sender |-> CHOOSE x \in pre : TRUE,
                               text |-> ReplyText]
                         ELSE NoReply]
    /\ reactions \in {<<>>, <<Row(Target, FirstUser, "+1")>>}
    /\ \E us \in {f \in [Conns -> Conns] : f[FirstUser] = FirstUser},
          late \in Conns \cup {NoConn} :
         /\ call = [c \in Conns |->
                      IF c = late
                      THEN [NoCall EXCEPT !.u = us[c], !.at = "create", !.op = "add",
                                          !.m = Target, !.e = "heart"]
                      ELSE [NoCall EXCEPT !.u = us[c]]]
         /\ pc = [c \in Conns |-> IF c = late THEN "dispatch" ELSE "read"]
         /\ messageData = [c \in Conns |->
                             IF c = late
                             THEN Data("reaction", NoText, FALSE, Target, "heart", "add")
                             ELSE NoData]
    /\ updates = <<>>
    /\ history = NoHistory
    /\ sending = [c \in Conns |-> NoSending]
    /\ tasks = [t \in Tasks |-> NoTask]
    /\ pushes = {}
    /\ retry = NoRetry

\* The calls interleave statement by statement; the reload at the end of
\* AddReaction finds the message only while its row is stored.
DeleteNext ==
    \/ \E c \in Conns : ReadDelete(c, Target)
    \/ \E c \in Conns, ok \in BOOLEAN : DeleteLookup(c, ok)
    \/ \E c \in Conns, ok \in BOOLEAN : DeleteStep(c, ok)
    \/ \E c \in Conns : DeletePost(c)
    \/ \E c \in Conns, s \in ReplySenders, found \in BOOLEAN : ReadReply(c, s, found)
    \/ \E c \in Conns, ok \in BOOLEAN, loaded \in BOOLEAN : ReplyCreate(c, ok, loaded)
    \/ \E c \in Conns, ok \in BOOLEAN : AddCreate(c, ok)
    \/ \E c \in Conns, ok \in BOOLEAN :
         /\ call[c].at = "load"
         /\ ok => Exists(messages, call[c].m)
         /\ LoadAndPost(c, ok)
    \/ \E c \in Conns, n \in 1..MaxUpd : Deliver(c, n)
    \/ \E c \in Conns : FetchHistory(c)

DeleteSpec == DeleteInit /\ [][DeleteNext]_vars

\* The room updates of the connections. Every connection is registered in a
\* room with a distinct ID and reading; the rooms have a row in the rooms
\* table, public or private, or none (the room was deleted), and the users
\* any membership rows.
UpdateInit ==
    /\ clock = NConn - 1
    /\ \E rm \in [Conns -> Rooms] :
         /\ client = [c \in Conns |-> [id |-> generateClientID(c - 1), room |-> rm[c]]]
         /\ rooms = [r \in {rm[c] : c \in Conns} |->
                       [id \in {generateClientID(c - 1) : c \in {x \in Conns : rm[x] = r}} |->
                          CHOOSE c \in Conns : generateClientID(c - 1) = id]]
    /\ closed = [c \in Conns |-> FALSE]
    /\ pc = [c \in Conns |-> "read"]
    /\ frame = [c \in Conns |-> NoFrame]
    /\ sendq = <<>>
    /\ spawnB = {}
    /\ spawnU = [c \in Conns |-> 0]
    /\ updq = 0
    /\ push = [c \in Conns |-> [snap |-> 0, lock |-> 0]]
    /\ mu = [c \in Conns |-> "free"]
    /\ hub = IdleHub
    /\ inProgress = {}
    /\ nenv = 0
    /\ nposted = 0
    /\ recv = [c \in Conns |-> <<>>]
    /\ denials = [c \in Conns |-> 0]
    /\ hand = [c \in Conns |-> NoHand]
    /\ \E kind \in [Rooms -> {"none", "public", "private"}] :
         db = [kind |-> kind, member |-> {}]
    /\ messageData = [c \in Conns |-> NoData]
    /\ messages = [u \in Uuids |-> NoRow]
    /\ reactions = <<>>
    /\ \E us \in {f \in [Conns -> Conns] : f[FirstUser] = FirstUser} :
         call = [c \in Conns |-> [NoCall EXCEPT !.u = us[c]]]
    /\ updates = <<>>
    /\ replies = [u \in Uuids |-> NoReply]
    /\ history = NoHistory
    /\ sending = [c \in Conns |-> NoSending]
    /\ tasks = [t \in Tasks |-> NoTask]
    /\ pushes = {}
    /\ retry = NoRetry

\* A sendRoomUpdateToClient shares nothing with another one, so they run one
\* after the other, beside the changes of the directory and of the tables:
\* connections leave and join, users become members, rooms are deleted.
UpdateNext ==
    \/ \E c \in Conns :
         /\ \A x \in Conns : sending[x].at = "idle"
         /\ SendSnapshot(c)
    \/ \E c \in Conns, r \in Rooms, fail \in BOOLEAN : SendCheck(c, r, fail)
    \/ \E c \in Conns : SendWrite(c)
    \/ \E c \in Conns, r \in Rooms : DirectoryJoin(c, r)
    \/ \E c \in Conns : DirectoryLeave(c)
    \/ \E r \in Rooms, u \in Conns : DbAddMember(r, u)
    \/ \E r \in Rooms : DbDeleteRoom(r)

UpdateSpec == UpdateInit /\ [][UpdateNext]_vars

\* The tasks at Hub.mutex. The connections have distinct IDs; each is
\* registered in a room or not yet registered.
LockInit ==
    /\ clock = NConn - 1
    /\ \E rm \in [Conns -> Rooms \cup {NoRoom}] :
         /\ client = [c \in Conns |-> [id |-> generateClientID(c - 1), room |-> rm[c]]]
         /\ rooms = [r \in {rm[c] : c \in Conns} \ {NoRoom} |->
                       [id \in {generateClientID(c - 1) : c \in {x \in Conns : rm[x] = r}} |->
                          CHOOSE c \in Conns : generateClientID(c - 1) = id]]
    /\ closed = [c \in Conns |-> FALSE]
    /\ pc = [c \in Conns |-> "read"]
    /\ frame = [c \in Conns |-> NoFrame]
    /\ sendq = <<>>
    /\ spawnB = {}
    /\ spawnU = [c \in Conns |-> 0]
    /\ updq = 0
    /\ push = [c \in Conns |-> [snap |-> 0, lock |-> 0]]
    /\ mu = [c \in Conns |-> "free"]
    /\ hub = IdleHub
    /\ inProgress = {}
    /\ nenv = 0
    /\ nposted = 0
    /\ recv = [c \in Conns |-> <<>>]
    /\ denials = [c \in Conns |-> 0]
    /\ InitSide

\* The worker handles one request at a time; the readers come and go.
LockNext ==
    \/ \E t \in Tasks : ReaderLock(t)
    \/ \E t \in Tasks : ReaderRange(t)
    \/ \E t \in Tasks : ReaderUnlock(t)
    \/ \E c \in Conns, r \in Rooms : WorkerLock(c, r)
    \/ WorkerWrite
    \/ WorkerUnlock

LockSpec == LockInit /\ [][LockNext]_vars

\* the connection whose peer stops reading: the first one accepted
Staller == CHOOSE c \in Conns : \A d \in Conns : c <= d

\* The scheduling when the peer of Staller stops reading: conn.WriteMessage has
\* no write deadline (SetWriteDeadline is never called), so a write to Staller
\* returns only if the peer reads again; every other goroutine runs as under
\* Fairness.
StallFairness ==
    /\ SF_vars(RecvRegister) /\ SF_vars(RecvUnregister) /\ SF_vars(RecvBroadcast)
    /\ WF_vars(RegisterEnd) /\ WF_vars(UnregisterEnd)
    /\ SF_vars(\E c \in Conns : BroadcastLock(c))
    /\ WF_vars(BroadcastWrite /\ hub.cur # Staller) /\ WF_vars(BroadcastEnd)
    /\ WF_vars(\E c \in Conns : PostEvict(c))
    /\ WF_vars(\E c \in Conns : DenyWriteBegin(c))
    /\ WF_vars(\E c \in Conns : DenyWriteEnd(c))
    /\ WF_vars(\E c \in Conns \ {Staller} : PushWrite(c))

\* The steps of LiveNext with the connections joining any room.
StallNext ==
    \/ \E c \in Conns, r \in Rooms, t \in 0..MaxClock : Accept(c, r, t)
    \/ RecvRegister
    \/ RegisterEnd /\ nenv' <= LiveMaxEnv
    \/ RecvUnregister /\ nenv' <= LiveMaxEnv
    \/ UnregisterEnd
    \/ RecvBroadcast
    \/ \E c \in Conns : BroadcastLock(c)
    \/ BroadcastWrite
    \/ BroadcastEnd
    \/ \E e \in spawnB : PostBroadcast(e)
    \/ \E c \in Conns : PostEvict(c)
    \/ \E c \in Conns, res \in AccessResults : ReadFrame(c, res)
    \/ \E c \in Conns : ReadError(c)
    \/ \E c \in Conns : DenyWriteBegin(c)
    \/ \E c \in Conns : DenyWriteEnd(c)
    \/ \E c \in Conns, t \in FrameTypes : Dispatch(c, t) /\ nenv' <= LiveMaxEnv
    \/ RoomUpdate
    \/ \E c \in Conns : PushSnapshot(c)
    \/ \E c \in Conns : PushLock(c)
    \/ \E c \in Conns : PushWrite(c)

StallSpec == Init /\ [][StallNext]_vars /\ StallFairness

\* the same steps when every write completes
StallFreeSpec == Init /\ [][StallNext]_vars /\ Fairness

\* the fan-out of envelope n reaches connection d: the envelope carries
\* client.Room of the connection that built it, and broadcastToRoom writes to
\* the connections registered in that room
DeliverRoom(d, n) ==
    /\ n \in DOMAIN updates
    /\ client[d].room = client[updates[n].by].room
    /\ Deliver(d, n)

\* The delete calls with the connections in any rooms: message Target was
\* sent to room general by either user, the connections are registered in any
\* rooms, and several connections may belong to one user.
RoomDeleteInit ==
    /\ clock = NConn - 1
    /\ \E rm \in [Conns -> Rooms] :
         /\ client = [c \in Conns |-> [id |-> generateClientID(c - 1), room |-> rm[c]]]
         /\ rooms = [r \in {rm[c] : c \in Conns} |->
                       [id \in {generateClientID(c - 1) : c \in {x \in Conns : rm[x] = r}} |->
                          CHOOSE c \in Conns : generateClientID(c - 1) = id]]
    /\ closed = [c \in Conns |-> FALSE]
    /\ pc = [c \in Conns |-> "read"]
    /\ frame = [c \in Conns |-> NoFrame]
    /\ sendq = <<>>
    /\ spawnB = {}
    /\ spawnU = [c \in Conns |-> 0]
    /\ updq = 0
    /\ push = [c \in Conns |-> [snap |-> 0, lock |-> 0]]
    /\ mu = [c \in Conns |-> "free"]
    /\ hub = IdleHub
    /\ inProgress = {}
    /\ nenv = 0
    /\ nposted = 0
    /\ recv = [c \in Conns |-> <<>>]
    /\ denials = [c \in Conns |-> 0]
    /\ hand = [c \in Conns |-> NoHand]
    /\ db = [kind |-> [r \in Rooms |-> "public"], member |-> {}]
    /\ messageData = [c \in Conns |-> NoData]
    /\ \E owner \in Conns :
         messages = [u \in Rows |->
                       IF u = Target THEN [sender |-> owner, room |-> "general"] ELSE NoRow]
    /\ replies = [u \in Rows |-> NoReply]
    /\ reactions \in {<<>>, <<Row(Target, FirstUser, "+1")>>}
    /\ \E us \in [Conns -> Conns] : call = [c \in Conns |-> [NoCall EXCEPT !.u = us[c]]]
    /\ updates = <<>>
    /\ history = NoHistory
    /\ sending = [c \in Conns |-> NoSending]
    /\ tasks = [t \in Tasks |-> NoTask]
    /\ pushes = {}
    /\ retry = NoRetry

RoomDeleteNext ==
    \/ \E c \in Conns : ReadDelete(c, Target)
    \/ \E c \in Conns, ok \in BOOLEAN : DeleteLookup(c, ok)
    \/ \E c \in Conns, ok \in BOOLEAN : DeleteStep(c, ok)
    \/ \E c \in Conns : DeletePost(c)
    \/ \E d \in Conns, n \in 1..MaxUpd : DeliverRoom(d, n)

RoomDeleteSpec == RoomDeleteInit /\ [][RoomDeleteNext]_vars

\* what a step of the hub worker on the memberships leaves alone
MemberFrame ==
    UNCHANGED <<clock, pc, frame, sendq, spawnB, spawnU, updq, push, mu, hub,
                inProgress, nenv, nposted, recv, denials, hand, messageData,
                messages, reactions, call, updates, replies, history, sending,
                tasks, pushes, retry>>

\* RoomService.JoinRoom: the membership of the user in the room is made
\* active (saved if it was inactive, created if it was missing)
JoinRoom(d, u, r) == [d EXCEPT !.member = @ \cup {<<u, r>>}]

\* RoomService.LeaveRoom: is_active = false on the membership of the user in
\* the room
LeaveRoom(d, u, r) == [d EXCEPT !.member = @ \ {<<u, r>>}]

\* registerClient for a new connection c of user call[c].u bound to room r:
\* the entry is added to the directory and JoinRoom is called; its error is
\* logged
JoinStep(c, r, ok) ==
    /\ client[c].room = NoRoom /\ ~closed[c]
    /\ client' = [client EXCEPT ![c].room = r]
    /\ rooms' = [MapPut(rooms, r, IF r \in DOMAIN rooms THEN rooms[r] ELSE EmptyMap)
                   EXCEPT ![r] = MapPut(@, client[c].id, c)]
    /\ db' = IF ok THEN JoinRoom(db, call[c].u, r) ELSE db
    /\ UNCHANGED closed
    /\ MemberFrame

\* unregisterClient for a registered connection: the entry is deleted, the
\* connection is closed and LeaveRoom is called; its error is logged
LeaveStep(c, ok) ==
    /\ Found(c) /\ ~closed[c]
    /\ LET r == client[c].room
       IN  /\ rooms' = DropIfEmpty([rooms EXCEPT ![r] = MapDelete(@, client[c].id)], r)
           /\ db' = IF ok THEN LeaveRoom(db, call[c].u, r) ELSE db
    /\ closed' = [closed EXCEPT ![c] = TRUE]
    /\ UNCHANGED client
    /\ MemberFrame

\* The connections of the users, none accepted yet; a user may open several.
MemberInit ==
    /\ clock = NConn - 1
    /\ client = [c \in Conns |-> [id |-> generateClientID(c - 1), room |-> NoRoom]]
    /\ rooms = EmptyMap
    /\ closed = [c \in Conns |-> FALSE]
    /\ pc = [c \in Conns |-> "read"]
    /\ frame = [c \in Conns |-> NoFrame]
    /\ sendq = <<>>
    /\ spawnB = {}
    /\ spawnU = [c \in Conns |-> 0]
    /\ updq = 0
    /\ push = [c \in Conns |-> [snap |-> 0, lock |-> 0]]
    /\ mu = [c \in Conns |-> "free"]
    /\ hub = IdleHub
    /\ inProgress = {}
    /\ nenv = 0
    /\ nposted = 0
    /\ recv = [c \in Conns |-> <<>>]
    /\ denials = [c \in Conns |-> 0]
    /\ hand = [c \in Conns |-> NoHand]
    /\ db = [kind |-> [r \in Rooms |-> "public"], member |-> {}]
    /\ messageData = [c \in Conns |-> NoData]
    /\ messages = [u \in Uuids |-> NoRow]
    /\ reactions = <<>>
    /\ \E us \in [Conns -> Conns] : call = [c \in Conns |-> [NoCall EXCEPT !.u = us[c]]]
    /\ updates = <<>>
    /\ replies = [u \in Uuids |-> NoReply]
    /\ history = NoHistory
    /\ sending = [c \in Conns |-> NoSending]
    /\ tasks = [t \in Tasks |-> NoTask]
    /\ pushes = {}
    /\ retry = NoRetry

\* The hub worker handles the registers and unregisters one after the other.
MemberNext ==
    \/ \E c \in Conns, r \in Rooms, ok \in BOOLEAN : JoinStep(c, r, ok)
    \/ \E c \in Conns, ok \in BOOLEAN : LeaveStep(c, ok)

MemberSpec == MemberInit /\ [][MemberNext]_vars

\* what a step of the presence pushes leaves alone
PresenceFrame ==
    UNCHANGED <<clock, pc, frame, sendq, spawnB, spawnU, push, mu, hub,
                inProgress, nenv, nposted, recv, denials, hand, db, messageData,
                messages, reactions, call, replies, history, sending, tasks, retry>>

\* the connections with an entry in the directory
Registered == {c \in DOMAIN client : Found(c) /\ rooms[client[c].room][client[c].id] = c}

\* registerClient for a new connection bound to room r, with the
\* go broadcastRoomUpdate() at its end
PresenceJoin(c, r) ==
    /\ client[c].room = NoRoom /\ ~closed[c]
    /\ client' = [client EXCEPT ![c].room = r]
    /\ rooms' = [MapPut(rooms, r, IF r \in DOMAIN rooms THEN rooms[r] ELSE EmptyMap)
                   EXCEPT ![r] = MapPut(@, client[c].id, c)]
    /\ updq' = updq + 1
    /\ UNCHANGED <<closed, pushes, updates>>
    /\ PresenceFrame

\* unregisterClient for a registered connection: the entry is deleted, the
\* connection closed, go broadcastRoomUpdate() started, the empty room dropped
PresenceLeave(c) ==
    /\ c \in Registered
    /\ rooms' = DropIfEmpty([rooms EXCEPT ![client[c].room] = MapDelete(@, client[c].id)],
                            client[c].room)
    /\ closed' = [closed EXCEPT ![c] = TRUE]
    /\ updq' = updq + 1
    /\ UNCHANGED <<client, pushes, updates>>
    /\ PresenceFrame

\* broadcastRoomUpdate: under the read lock, go sendRoomUpdateToClient(client)
\* for every client of every room. Pushes for one connection that are at the
\* same point with the same copy are kept once.
PresenceFanOut ==
    /\ updq > 0
    /\ updq' = updq - 1
    /\ pushes' = pushes \cup {[to |-> c, at |-> "copy", seen |-> EmptyMap] : c \in Registered}
    /\ UNCHANGED <<client, rooms, closed, updates>>
    /\ PresenceFrame

\* sendRoomUpdateToClient: the copy of the directory under the read lock
PresenceCopy(p) ==
    /\ p \in pushes /\ p.at = "copy"
    /\ pushes' = (pushes \ {p}) \cup {[p EXCEPT !.at = "write", !.seen = Seen]}
    /\ UNCHANGED <<client, rooms, closed, updq, updates>>
    /\ PresenceFrame

\* sendRoomUpdateToClient: the write under client.Mutex (every room is public,
\* so every room of the copy is listed); the write to a closed connection
\* fails
PresenceWrite(p) ==
    /\ p \in pushes /\ p.at = "write"
    /\ pushes' = pushes \ {p}
    /\ updates' = IF closed[p.to] THEN updates
                  ELSE Append(updates, [type |-> "room_update", to |-> p.to, rooms |-> p.seen])
    /\ UNCHANGED <<client, rooms, closed, updq>>
    /\ PresenceFrame

\* The hub worker handles the registers and unregisters one after the other;
\* the presence fan-outs and pushes they start run beside it.
PresenceNext ==
    \/ \E c \in Conns, r \in Rooms : PresenceJoin(c, r)
    \/ \E c \in Conns : PresenceLeave(c)
    \/ PresenceFanOut
    \/ \E p \in pushes : PresenceCopy(p)
    \/ \E p \in pushes : PresenceWrite(p)

PresenceSpec == MemberInit /\ [][PresenceNext]_vars

\* conn.ReadJSON returned a frame and CanUserAccessRoom is called: res is
\* what the call answers
ReadThenCheck(c, res) ==
    /\ pc[c] = "read"
    /\ ~closed[c]
    /\ pc' = [pc EXCEPT ![c] = "check"]
    /\ frame' = [frame EXCEPT ![c] = res]
    /\ UNCHANGED <<clock, client, closed, rooms, sendq, spawnB, spawnU,
                   updq, push, mu, hub, inProgress, nenv, nposted, recv>>
    /\ UNCHANGED <<denials, sideVars>>

\* the answer of the check is looked at: an error continues with the next
\* frame, a denial leaves the loop, otherwise the frame goes to the switch
CheckAnswered(c) ==
    /\ pc[c] = "check"
    /\ pc' = [pc EXCEPT ![c] = AfterCheck(frame[c])]
    /\ UNCHANGED <<clock, client, closed, frame, rooms, sendq, spawnB, spawnU,
                   updq, push, mu, hub, inProgress, nenv, nposted, recv>>
    /\ UNCHANGED <<denials, sideVars>>

\* The read loops of registered connections with the check of every frame as
\* a step of its own, up to the posts on the channels of the hub.
CheckNext ==
    \/ \E c \in Conns, res \in AccessResults : ReadThenCheck(c, res)
    \/ \E c \in Conns : CheckAnswered(c)
    \/ \E c \in Conns, t \in FrameTypes : Dispatch(c, t)
    \/ \E c \in Conns : DenyWriteBegin(c)
    \/ \E c \in Conns : DenyWriteEnd(c)
    \/ \E e \in spawnB : PostBroadcast(e)

CheckSpec == ReactInit /\ [][CheckNext]_vars

\* ------------------------------------------------------------------ retryOnDatabaseLock

\* the largest maxRetries tried
MaxRetries == 3

\* err.Error() as a sequence of words; nil is the empty sequence
Nil == <<>>
ErrorTexts ==
    { <<"database", "is", "locked">>,
      <<"database", "is", "locked", "(5)", "(SQLITE_BUSY)">>,
      <<"SQLITE_BUSY">>,
      <<"record", "not", "found">> }

\* strings.Contains(s, sub)
Contains(s, sub) ==
    \E i \in 1..(Len(s) - Len(sub) + 1) : SubSeq(s, i, i + Len(sub) - 1) = sub

\* only the first of the two texts is looked for
IsLockedOnly(e) == Contains(e, <<"database", "is", "locked">>)

\* the error is a database-lock error
IsLockError(e) ==
    Contains(e, <<"database", "is", "locked">>) \/ Contains(e, <<"SQLITE_BUSY">>)

\* what a step of retryOnDatabaseLock leaves alone
RetryFrame ==
    UNCHANGED <<clock, client, closed, pc, frame, rooms, sendq, spawnB, spawnU, updq,
                push, mu, hub, inProgress, nenv, nposted, recv, denials, hand, db,
                messageData, messages, reactions, call, updates, replies, history,
                sending, tasks, pushes>>

\* one pass of the loop body: the operation is called; nil returns nil, a
\* lock error before the last attempt sleeps and continues, any other error
\* and a lock error at the last attempt are returned
RetryCall ==
    /\ retry.at = "loop"
    /\ retry.i < retry.max
    /\ LET err == Head(retry.left)
           r == [retry EXCEPT !.calls = Append(@, err), !.left = Tail(@)]
       IN  retry' =
             IF err = Nil
             THEN [r EXCEPT !.at = "done", !.result = Nil]
             ELSE IF IsLockError(err) /\ retry.i < retry.max - 1
                  THEN [r EXCEPT !.i = @ + 1]
                  ELSE [r EXCEPT !.at = "done", !.result = err]
    /\ RetryFrame

\* the loop condition fails: return err, the last error assigned (nil when
\* the operation was never called)
RetryExit ==
    /\ retry.at = "loop"
    /\ retry.i >= retry.max
    /\ retry' = [retry EXCEPT !.at = "done",
                              !.result = IF retry.calls = <<>> THEN Nil
                                         ELSE retry.calls[Len(retry.calls)]]
    /\ RetryFrame

\* retryOnDatabaseLock(operation, maxRetries) is entered with maxRetries up
\* to MaxRetries and an operation whose calls return any of the outcomes.
RetryInit ==
    /\ clock = NConn - 1
    /\ client = [c \in Conns |-> [id |-> generateClientID(c - 1), room |-> NoRoom]]
    /\ rooms = EmptyMap
    /\ closed = [c \in Conns |-> FALSE]
    /\ pc = [c \in Conns |-> "read"]
    /\ frame = [c \in Conns |-> NoFrame]
    /\ sendq = <<>>
    /\ spawnB = {}
    /\ spawnU = [c \in Conns |-> 0]
    /\ updq = 0
    /\ push = [c \in Conns |-> [snap |-> 0, lock |-> 0]]
    /\ mu = [c \in Conns |-> "free"]
    /\ hub = IdleHub
    /\ inProgress = {}
    /\ nenv = 0
    /\ nposted = 0
    /\ recv = [c \in Conns |-> <<>>]
    /\ denials = [c \in Conns |-> 0]
    /\ hand = [c \in Conns |-> NoHand]
    /\ db = [kind |-> [r \in Rooms |-> "public"], member |-> {}]
    /\ messageData = [c \in Conns |-> NoData]
    /\ messages = [u \in Uuids |-> NoRow]
    /\ reactions = <<>>
    /\ call = [c \in Conns |-> [NoCall EXCEPT !.u = c]]
    /\ updates = <<>>
    /\ replies = [u \in Uuids |-> NoReply]
    /\ history = NoHistory
    /\ sending = [c \in Conns |-> NoSending]
    /\ tasks = [t \in Tasks |-> NoTask]
    /\ pushes = {}
    /\ \E m \in 0..MaxRetries, outs \in [1..MaxRetries -> ErrorTexts \cup {Nil}] :
         retry = [NoRetry EXCEPT !.at = "loop", !.max = m, !.left = outs]

RetryNext == RetryCall \/ RetryExit

RetrySpec == RetryInit /\ [][RetryNext]_vars

\* One read loop sends text frames: the read loop of FirstUser reads a frame,
\* stores it and starts the goroutine that posts its envelope, frame after
\* frame; the hub fans the envelopes out.
OrderNext ==
    \/ ReadFrame(FirstUser, "ok")
    \/ Dispatch(FirstUser, "message")
    \/ \E e \in spawnB : PostBroadcast(e)
    \/ RecvBroadcast
    \/ \E c \in Conns : BroadcastLock(c)
    \/ BroadcastWrite
    \/ BroadcastEnd

OrderSpec == ReactInit /\ [][OrderNext]_vars

\* ------------------------------------------------------------------ properties

\* the hub worker is inside registerClient or unregisterClient
MidMutation == hub.op \in {"register", "unregister"}

\* the IDs in room r's member map
Members(r) == IF r \in DOMAIN rooms THEN DOMAIN rooms[r] ELSE {}

\* C1: whenever the hub worker is not in the middle of a register or an
\* unregister, a room name is a key of the Room Directory if and only if its
\* member set is not empty.
C1_RoomIffMembers ==
    ~MidMutation =>
        /\ DOMAIN rooms \subseteq Rooms
        /\ \A r \in Rooms : (r \in DOMAIN rooms) <=> (Members(r) # {})

\* a connection was registered and unregistered, its room lost its last member
\* and the room entry is gone
C1_Witness ==
    /\ ~MidMutation
    /\ \E c \in Conns : closed[c] /\ client[c].room \notin DOMAIN rooms

\* C2: in a broadcast every connection of the member set read from the
\* directory is written the envelope exactly once unless its write failed:
\* no connection ever holds two copies of an envelope, and during a fan-out
\* the snapshot members already visited without a failure hold one copy, the
\* others none.
C2_ExactlyOnce ==
    /\ \A c \in Conns, id \in 1..MaxEnv : Copies(c, id) <= 1
    /\ hub.op = "broadcast" =>
         \A c \in hub.snap :
            Copies(c, hub.env.id) = IF c \in hub.todo \cup hub.failed THEN 0 ELSE 1

\* a fan-out over two members is complete and no write failed
C2_Witness ==
    /\ hub.op = "broadcast" /\ hub.todo = {} /\ hub.failed = {}
    /\ Cardinality(hub.snap) >= 2
    /\ \A c \in hub.snap : Copies(c, hub.env.id) = 1

\* C3: the fan-out of an envelope writes only to connections that were in the
\* member set of the envelope's room when the directory was read: the set it
\* ranges over is that room's member set, whose connections are all bound to
\* that room, registered and not unregistered.
C3_OnlySnapshotMembers ==
    hub.op = "broadcast" =>
        /\ hub.snap = RoomConns(hub.env.room)
        /\ hub.todo \subseteq hub.snap
        /\ hub.cur # NoConn => hub.cur \in hub.snap
        /\ \A c \in hub.snap :
              /\ client[c].room = hub.env.room
              /\ ~closed[c]
              /\ pc[c] \notin {"new", "reg"}

\* an envelope is being written to a member while a connection registered in
\* another room is left out
C3_Witness ==
    /\ hub.op = "broadcast" /\ hub.cur # NoConn
    /\ AllMembers \ hub.snap # {}

\* C4: at no time are two of registerClient, unregisterClient and
\* broadcastMessage in progress.
C4_OneAtATime == Cardinality(inProgress) <= 1

\* a handler is running while another request waits at the hub
C4_Witness == inProgress # {} /\ sendq # <<>>

\* the hub worker receives a request in this step
HubReceives == hub.op = "idle" /\ hub'.op # "idle"

\* every connection received its envelopes in the order their broadcasts
\* reached the send on Hub.broadcast
DeliveredInPostOrder ==
    \A c \in Conns : \A i, j \in 1..Len(recv[c]) :
        i < j => recv[c][i].stamp < recv[c][j].stamp

Writers(c) ==
    (IF hub.op = "broadcast" /\ hub.cur = c THEN {"fan-out"} ELSE {})
    \cup (IF mu[c] = "push" THEN {"presence push"} ELSE {})
    \cup (IF pc[c] = "denying" THEN {"denial notice"} ELSE {})

\* C6: at no time are two writes in progress on the same connection's channel.
C6_OneWriter == \A c \in Conns : Cardinality(Writers(c)) <= 1

\* C7: a connectionID is a key in at most one room's member set, and that room
\* is the bound room of the connection record stored under it.
C7_OneRoomPerID ==
    /\ \A r1, r2 \in DOMAIN rooms :
          r1 # r2 => DOMAIN rooms[r1] \cap DOMAIN rooms[r2] = {}
    /\ \A r \in DOMAIN rooms : \A id \in DOMAIN rooms[r] :
          client[rooms[r][id]].room = r

\* C8: any two accepted connections have different connectionIDs.
C8_UniqueIDs ==
    \A c, d \in Conns :
        (c # d /\ pc[c] # "new" /\ pc[d] # "new") => client[c].id # client[d].id

\* a goroutine that posts the unregister of c is alive
EvictPending(c) ==
    \/ spawnU[c] > 0
    \/ \E i \in 1..Len(sendq) :
          sendq[i].ch = "unregister" /\ sendq[i].c = c /\ sendq[i].by = "go"

\* C9: when a write fails during a fan-out, an unregister of the failed
\* member is posted, the fan-out returns only after every other member of
\* the snapshot was written the envelope, and the worker is then back at its
\* select.
C9_FailureDoesNotAbort ==
    /\ [](hub.op = "broadcast" => \A c \in hub.failed : EvictPending(c))
    /\ [][(hub.op = "broadcast" /\ hub'.op # "broadcast") =>
            /\ hub' = IdleHub
            /\ hub.todo = {}
            /\ \A c \in hub.snap \ hub.failed : Copies(c, hub.env.id) = 1]_vars

\* a fan-out is complete in which one write failed and another member was
\* written the envelope
C9_Witness ==
    /\ hub.op = "broadcast" /\ hub.todo = {}
    /\ hub.failed # {}
    /\ \E c \in hub.snap \ hub.failed : Copies(c, hub.env.id) = 1

\* a step in which a read loop persists, posts a broadcast or starts a
\* room_update for its frame
FrameEffect ==
    \/ nenv' > nenv /\ hub' = hub
    \/ \E c \in Conns : push'[c].snap > push[c].snap /\ updq' = updq

\* C10: the switch on a frame is reached only with the answer true of the
\* Access Revalidator for that frame, and every persistence call, broadcast
\* request and unicast room_update of a read loop is made by that switch.
C10_RevalidateBeforeEffect ==
    /\ [](\A c \in Conns : pc[c] = "dispatch" => frame[c] = "ok")
    /\ [][FrameEffect =>
            \E c \in Conns :
               pc[c] = "dispatch" /\ frame[c] = "ok" /\ pc'[c] = "read"]_vars

\* a frame passed revalidation and its switch is about to run with room for
\* an envelope
C10_Witness ==
    \E c \in Conns : pc[c] = "dispatch" /\ frame[c] = "ok" /\ nenv < MaxEnv

\* the deferred unregister of c's read loop waits at the hub
OwnUnregisterPosted(c) ==
    \E i \in 1..Len(sendq) :
        sendq[i].ch = "unregister" /\ sendq[i].c = c /\ sendq[i].by = "handler"

\* a step of c's read loop on the denial path
DenialStep(c) == frame[c] = "denied" /\ pc'[c] # pc[c]

OpenTo(c) ==
    LET r == hand[c].room
    IN  \/ db.kind[r] = "public"
        \/ db.kind[r] = "private" /\ <<c, r>> \in db.member

\* C12: a connection is posted for registration only after the last answer of
\* CanUserAccessRoom for its user and requested room was true, an answer given
\* only for a room that is public or has the user as a member; a room that
\* does not exist is created as a public room and the query made again, which
\* grants access to the room while it is public (a failed query closes the
\* connection); a user who is denied is written the error, the connection is
\* closed, not posted for registration and never in the Room Directory.
C12_ConnectAccess ==
    /\ [](\A c \in Conns :
            /\ pc[c] # "new" =>
                  /\ hand[c].at = "admitted" /\ hand[c].ans = "true"
                  /\ client[c].room = hand[c].room
            /\ pc[c] = "new" => c \notin AllMembers
            /\ hand[c].at \in {"deny", "denied"} => hand[c].ans = "false" /\ pc[c] = "new"
            /\ hand[c].at = "denied" =>
                  hand[c].err = "Access denied to this room" /\ closed[c])
    /\ [][\A c \in Conns :
            /\ hand[c].at = "denied" => hand'[c] = hand[c] /\ pc'[c] = "new"
            /\ (hand[c].at \in {"check", "recheck"} /\ hand'[c].at = "granted") => OpenTo(c)
            /\ (hand[c].at = "create" /\ hand'[c].at = "recheck") =>
                  db'.kind[hand[c].room] =
                     IF db.kind[hand[c].room] = "none" THEN "public" ELSE db.kind[hand[c].room]
            /\ (hand[c].at = "recheck" /\ hand'[c].at # "recheck"
                  /\ db.kind[hand[c].room] = "public") =>
                  \/ hand'[c].at = "granted"
                  \/ hand'[c].at = "closed" /\ hand'[c].ans = "err"]_vars

\* one connection is in the directory, in a room its own handshake created,
\* and another was denied
C12_Witness ==
    \E c, d \in Conns :
        /\ c \in AllMembers /\ hand[c].made
        /\ hand[d].at = "denied"

\* the directory holds an entry under c's ID in c's bound room
Known(c) == client[c].id \in Members(client[c].room)

\* what a handler of the hub can change outside its own position
HubEffects == <<rooms, closed, nenv, spawnB, updq, push, spawnU, recv, nposted, mu>>

\* C13: an unregister request for a connection whose ID is not in its room's
\* member set, or whose room has no directory entry, changes nothing: from
\* the receive of the request to the return of unregisterClient the Room
\* Directory is unchanged, no connection is closed, no leave envelope is
\* created or posted and no presence push is scheduled.
C13_UnknownUnregisterNoOp ==
    [][/\ (hub.op = "idle" /\ hub'.op = "unregister" /\ ~Known(hub'.c)) =>
             /\ UNCHANGED HubEffects
             /\ ~hub'.removed
       /\ (hub.op = "unregister" /\ hub'.op = "idle" /\ ~hub.removed) =>
             UNCHANGED HubEffects]_vars

\* an unregister is in hand for a connection whose room has no directory entry
C13_Witness ==
    /\ hub.op = "unregister" /\ ~hub.removed
    /\ client[hub.c].room \notin DOMAIN rooms
    /\ pc[hub.c] = "done"

\* registerClient returns in this step
RegisterReturns == hub.op = "register" /\ hub'.op = "idle"

\* C14: a register stores the connection under its ID in its bound room and
\* touches no other entry; when the ID is already a key of the room's member
\* set the existing entry is replaced, silently (nothing is closed): the set
\* of keys, and so the member count, is unchanged and the ID has one entry,
\* the new connection; when it is not, the set of keys grows by that ID.
C14_RegisterReplaces ==
    [][RegisterReturns =>
         LET c == hub.c
             r == client[c].room
             id == client[c].id
         IN  /\ rooms'[r][id] = c
             /\ DOMAIN rooms'[r] = Members(r) \cup {id}
             /\ id \in Members(r) =>
                   Cardinality(DOMAIN rooms'[r]) = Cardinality(Members(r))
             /\ \A k \in Members(r) \ {id} : rooms'[r][k] = rooms[r][k]
             /\ \A q \in DOMAIN rooms \ {r} : q \in DOMAIN rooms' /\ rooms'[q] = rooms[q]
             /\ UNCHANGED closed]_vars

\* two connections with the same ID registered in the same room: the room
\* holds one entry, the connection registered last
C14_Witness ==
    \E c, d \in Conns :
        /\ c # d /\ client[c].id = client[d].id /\ client[c].room = client[d].room
        /\ pc[c] = "read" /\ pc[d] = "read" /\ hub.op = "idle"
        /\ Members(client[c].room) = {client[c].id}
        /\ rooms[client[c].room][client[c].id] = d
        /\ c < d

\* unregisterClient removes an entry in this step
UnregisterRemoves == hub.op = "idle" /\ hub'.op = "unregister" /\ hub'.removed

\* in this step an envelope for room r is created and the goroutine that posts
\* it is started (when the bound on envelopes leaves room)
EnvelopeStarted(r) ==
    nenv < MaxEnv =>
        /\ nenv' = nenv + 1
        /\ \E e \in spawnB' \ spawnB : e.room = r

\* in this step a room update is started (when the bound on goroutines leaves
\* room)
UpdateStarted == AuxAlive < MaxAux => updq' = updq + 1

\* C15: every register that adds a connection and every unregister that
\* removes one starts a presence push and a goroutine that posts the join or
\* leave envelope for the affected room, and the hub worker goes on without
\* waiting for either.
C15_PresenceAndEnvelope ==
    [][/\ RegisterReturns =>
             /\ EnvelopeStarted(client[hub.c].room)
             /\ UpdateStarted
       /\ UnregisterRemoves =>
             /\ EnvelopeStarted(client[hub'.c].room)
             /\ UpdateStarted]_vars

\* the entry of room r under id is taken out of the directory in this step
EntryRemoved(r, id) ==
    /\ id \in Members(r)
    /\ r \notin DOMAIN rooms' \/ id \notin DOMAIN rooms'[r]

\* C16: every unregister that removes a connection from the Room Directory
\* closes that connection's channel in the same step of the hub.
C16_RemovedIsClosed ==
    [][\A r \in Rooms : \A id \in Members(r) :
          (hub'.op = "unregister" /\ EntryRemoved(r, id)) => closed'[rooms[r][id]]]_vars

SwitchStep(c) == pc[c] = "dispatch" /\ pc'[c] # "dispatch"

\* the text x is empty or made of white space only
Blank(x) == \A i \in 1..Len(x) : x[i] = " "

\* the frame d of connection c is a domain error against the table m: a text
\* frame without a text or with a blank one, a media frame without mediaUrl,
\* a delete or a reaction without messageId, a reaction without emoji or with
\* an unknown action, a delete of a message c does not own, a reaction on a
\* message that does not exist
DomainError(c, d, m) ==
    \/ /\ d.type \notin {"ping", "request_room_update", "delete", "media", "reaction"}
       /\ (~d.text.ok \/ Blank(d.text.str))
    \/ d.type = "media" /\ ~d.mediaUrl
    \/ d.type \in {"delete", "reaction"} /\ d.messageId = 0
    \/ d.type = "reaction" /\ d.emoji = NoEmoji
    \/ d.type = "reaction" /\ d.action \notin {Missing, "add", "remove", "toggle"}
    \/ d.type = "delete" /\ d.messageId # 0 /\ m[d.messageId].sender # c
    \/ d.type = "reaction" /\ d.messageId # 0 /\ m[d.messageId].sender = NoConn

\* what a broadcast, a reply to the sender or the loss of the registration
\* would change
FrameEffects == <<spawnB, nenv, sendq, nposted, push, updq, mu, recv, denials,
                  rooms, closed, spawnU, messages>>

\* C18: a frame that is a domain error (text missing or blank after trimming,
\* media without mediaUrl, delete or reaction without messageId, reaction
\* without emoji or with an unknown action, delete of a message the sender
\* does not own, reaction on a message that does not exist) is dropped: no
\* envelope is created or posted, nothing is written or scheduled to be
\* written to any connection, nothing is stored, the sender stays registered
\* and open, and its loop is back at the read of the next frame.
C18_DomainErrorDropped ==
    [][\A c \in Conns :
         (SwitchStep(c) /\ DomainError(c, messageData[c], messages)) =>
            /\ UNCHANGED FrameEffects
            /\ pc'[c] = "read"
            /\ messageData'[c] = NoData
            /\ ~closed'[c]]_vars

\* a registered connection is at the switch with a delete frame for a message
\* that another user stored
C18_Witness ==
    \E c \in Conns :
        /\ pc[c] = "dispatch"
        /\ c \in AllMembers
        /\ messageData[c].type = "delete"
        /\ messageData[c].messageId # 0
        /\ messages[messageData[c].messageId].sender \notin {c, NoConn}

\* the rows stored in this step for connection c
NewRows(c) ==
    {u \in Uuids : messages[u] = NoRow
                    /\ messages'[u] = [sender |-> c, room |-> client[c].room]}

\* C19: when the persistence call of a message or media frame fails (the row
\* is not created, or it cannot be loaded again) no envelope is created for
\* the frame; and the switch creates a message or media envelope only in a
\* step that stored the row, so that the row is in the table before the
\* goroutine that posts the envelope starts.
C19_StoredBeforeBroadcast ==
    [][\A c \in Conns :
         (SwitchStep(c)
          /\ SwitchCase(msgType(messageData[c])) \in {"message", "media"}) =>
            /\ \A env \in AnswersFor("message") :
                  (~(env.create /\ env.load) /\ HandleFrame(c, env)) =>
                     UNCHANGED <<spawnB, nenv, sendq, nposted>>
            /\ (spawnB' # spawnB \/ nenv' # nenv) =>
                  /\ NewRows(c) # {}
                  /\ \A e \in spawnB' \ spawnB : e.room = client[c].room]_vars

\* a registered connection is at the switch with a text frame that is not
\* blank, and the row and the envelope fit the bounds
C19_Witness ==
    \E c \in Conns :
        /\ pc[c] = "dispatch"
        /\ c \in AllMembers
        /\ messageData[c].type = "message"
        /\ messageData[c].text.ok /\ ~Blank(messageData[c].text.str)
        /\ NewUuid(messages) # 0
        /\ nenv < MaxEnv

\* C20: a ping frame creates and posts no envelope, schedules no presence
\* push and writes to no connection; a request_room_update frame starts one
\* sendRoomUpdateToClient goroutine, for the requesting connection and for no
\* other, and creates no envelope; and a sendRoomUpdateToClient goroutine
\* writes to the connection it was started for only.
C20_PingAndRoomUpdate ==
    [][\A c \in Conns :
         /\ (SwitchStep(c) /\ msgType(messageData[c]) = "ping") =>
               UNCHANGED FrameEffects
         /\ (SwitchStep(c) /\ msgType(messageData[c]) = "request_room_update") =>
               /\ UNCHANGED <<spawnB, nenv, sendq, nposted, updq, mu, recv, denials,
                               rooms, closed, spawnU, messages>>
               /\ \A d \in Conns \ {c} : push'[d] = push[d]
               /\ push'[c].lock = push[c].lock
               /\ push'[c].snap = push[c].snap + (IF AuxAlive < MaxAux THEN 1 ELSE 0)
         /\ (push'[c].lock < push[c].lock) =>
               /\ mu'[c] = "push"
               /\ \A d \in Conns \ {c} : mu'[d] = mu[d] /\ push'[d] = push[d]
               /\ UNCHANGED recv]_vars

\* a connection asks for a room update while another connection is
\* registered, and the goroutine it asks for can run
C20_Witness ==
    \E c \in Conns :
        /\ pc[c] = "dispatch"
        /\ messageData[c].type = "request_room_update"
        /\ AllMembers = Conns
        /\ AuxAlive < MaxAux

\* a request of connection c (its register or an unregister of it) or an
\* envelope for its room waits on a channel of the hub
Waiting(c) ==
    \E i \in DOMAIN sendq :
        \/ sendq[i].c = c
        \/ sendq[i].ch = "broadcast" /\ sendq[i].env.room = client[c].room

\* C21: when the peer of one connection stops reading, every request of a
\* connection in another room (its register, its unregister, an envelope for
\* its room) that waits on a channel of the hub is received by the hub in
\* the end.
C21_OtherRoomsServed ==
    \A c \in Conns \ {Staller} :
        (Waiting(c) /\ client[c].room # client[Staller].room) ~> ~Waiting(c)

\* the unregister requests for connection c among the blocked senders q
Unregs(q, c) ==
    Cardinality({i \in DOMAIN q : q[i].ch = "unregister" /\ q[i].c = c})

\* an unregister request for c is posted in this step
UnregisterPosted(c) == Unregs(sendq', c) > Unregs(sendq, c)

\* the causes of an unregister request for c: its read loop ended on ReadJSON
\* returning an error, its loop returned after a denied revalidation, or a
\* goroutine started after a failed fan-out write to c reached its send
LoopEnded(c) == pc[c] = "read" /\ pc'[c] = "unreg"
LoopDenied(c) == pc[c] = "denying" /\ frame[c] = "denied" /\ pc'[c] = "unreg"
EvictSent(c) == spawnU'[c] < spawnU[c]

\* C22: the server never evicts a connection for being idle. An unregister
\* request for a connection is posted only by its read loop ending on a read
\* error, by its read loop returning after a denied revalidation, or by a
\* goroutine started after a fan-out write to it failed, and such a goroutine
\* is started only by a failed write; and the entry of a connection is taken
\* out of the Room Directory only when the hub receives an unregister request
\* for that connection: one that sends nothing stays registered.
C22_NoIdleEviction ==
    [][\A c \in Conns :
         /\ UnregisterPosted(c) => LoopEnded(c) \/ LoopDenied(c) \/ EvictSent(c)
         /\ spawnU'[c] > spawnU[c] =>
               /\ hub.op = "broadcast" /\ hub.cur = c
               /\ c \in hub'.failed
               /\ recv'[c] = recv[c]
         /\ (Found(c) /\ rooms[client[c].room][client[c].id] = c
             /\ EntryRemoved(client[c].room, client[c].id)) =>
               hub.op = "idle" /\ hub'.op = "unregister" /\ hub'.c = c]_vars

\* the rows of table T as a set, and the rows of message m with emoji e
Keys(T) == {T[i] : i \in DOMAIN T}
RowsOf(T, m, e) == {i \in DOMAIN T : T[i].m = m /\ T[i].e = e}

Appended == Len(updates') = Len(updates) + 1

\* C24: the reaction_update envelope a call ends with carries the aggregate
\* of the table as it is when the message is loaded again, after the change
\* of the call: for each emoji with at least one row of the message an
\* entry whose count is the number of rows and whose list of user IDs has
\* that length and names the users of the rows, and no entry for an emoji
\* without a row.
C24_FullAggregate ==
    [][Appended =>
         LET up == updates'[Len(updates')]
         IN  /\ call[up.by].at = "load" /\ up.m = call[up.by].m
             /\ DOMAIN up.reactions \subseteq Emojis
             /\ \A e \in Emojis :
                   LET held == RowsOf(reactions, up.m, e)
                   IN  IF held = {}
                       THEN e \notin DOMAIN up.reactions
                       ELSE /\ e \in DOMAIN up.reactions
                            /\ up.reactions[e].count = Cardinality(held)
                            /\ Len(up.reactions[e].userID) = Cardinality(held)
                            /\ {up.reactions[e].userID[i] :
                                   i \in DOMAIN up.reactions[e].userID}
                                 = {reactions[i].u : i \in held}]_vars

\* a user reacted and then toggled the same emoji: two envelopes were built,
\* the first with an entry for the emoji, the second without one
C24_Witness ==
    /\ Len(updates) = 2
    /\ updates[1].by = updates[2].by /\ updates[1].m = updates[2].m
    /\ \E e \in Emojis :
          /\ e \in DOMAIN updates[1].reactions
          /\ updates[1].reactions[e].count = 1
          /\ e \notin DOMAIN updates[2].reactions

TargetOk(c, m) ==
    /\ m # 0
    /\ Exists(messages, m)
    /\ messages[m].room = client[c].room
    /\ db.kind[client[c].room] = "private" => <<call[c].u, client[c].room>> \in db.member

DeleteEnvelopes == {n \in DOMAIN updates : updates[n].type = "delete"}

\* C27: a message is removed only by a delete call of the user that sent it,
\* and only such a call gets past the lookup of DeleteMessage; a delete call
\* of any other user ends at the lookup with the message, the reactions, the
\* reply links and the envelopes built so far unchanged.
C27_OnlySenderDeletes ==
    /\ [](\A c \in Conns :
            (call[c].at \in {"unlink", "unreact", "remove"}
             /\ Exists(messages, call[c].m)) => messages[call[c].m].sender = call[c].u)
    /\ [][/\ \A i \in Rows :
               (Exists(messages, i) /\ ~Exists(messages', i)) =>
                 \E c \in Conns : /\ call[c].op = "delete" /\ call[c].m = i
                                  /\ call[c].u = messages[i].sender
          /\ DeleteEnvelopes' # DeleteEnvelopes =>
               \E c \in Conns : call[c].op = "delete" /\ call[c].at = "post"
          /\ \A c \in Conns :
               (/\ call[c].at = "lookup" /\ call'[c] # call[c]
                /\ Exists(messages, call[c].m)
                /\ messages[call[c].m].sender # call[c].u) =>
                 /\ call'[c].at = "idle"
                 /\ UNCHANGED <<messages, reactions, replies, updates>>]_vars

\* a user that did not send Target is at the lookup of its delete call, while
\* Target has a reaction and a reply that links to it
C27_Witness ==
    \E c \in Conns :
        /\ call[c].at = "lookup" /\ call[c].m = Target
        /\ Exists(messages, Target) /\ messages[Target].sender # call[c].u
        /\ Preload(reactions, Target) # <<>>
        /\ \E u \in Rows : Exists(messages, u) /\ replies[u].id = Target

\* C28: once Target is deleted, no stored message links to it, the delete
\* leaves the reply sender and reply text of every stored message as they
\* were, and the envelope of every message that replied to Target carries a
\* replyTo with that sender and text and an empty id. (Every message of this
\* specification other than Target is a reply to it.)
C28_RepliesDetached ==
    /\ [](~Exists(messages, Target) =>
            \A u \in Rows \ {Target} :
                Exists(messages, u) =>
                  /\ replies[u].id # Target
                  /\ ReplyInfo(replies[u], messages)
                       = [has |-> TRUE, id |-> 0, sender |-> replies[u].sender,
                          text |-> replies[u].text])
    /\ [][\A u \in Rows :
            Exists(messages, u) =>
              /\ replies'[u].sender = replies[u].sender
              /\ replies'[u].text = replies[u].text]_vars

C30_RoomUpdateFiltered ==
    [][\A c \in Conns :
         /\ (sending[c].at = "idle" /\ sending'[c].at = "filter") =>
              /\ DOMAIN sending'[c].snap = DOMAIN rooms
              /\ \A r \in DOMAIN rooms :
                   /\ sending'[c].snap[r].count = Cardinality(DOMAIN rooms[r])
                   /\ Len(sending'[c].snap[r].clients) = Cardinality(DOMAIN rooms[r])
                   /\ \A u \in Conns :
                        Cardinality({i \in DOMAIN sending'[c].snap[r].clients :
                                        sending'[c].snap[r].clients[i] = u})
                          = Cardinality({id \in DOMAIN rooms[r] : call[rooms[r][id]].u = u})
         /\ \A r \in DOMAIN sending'[c].answers \ DOMAIN sending[c].answers :
              sending'[c].answers[r] = "true" => CanUserAccessRoom(call[c].u, r) = "true"
         /\ (sending[c].at = "filter" /\ sending'[c].at = "idle") =>
              /\ Len(updates') = Len(updates) + 1
              /\ updates'[Len(updates')].to = c
              /\ \A room \in updates'[Len(updates')].rooms :
                   /\ room.name \in DOMAIN sending[c].snap
                   /\ sending[c].answers[room.name] = "true"
                   /\ room.count = Len(room.clients)
                   /\ room.clients = sending[c].snap[room.name].clients
                   /\ room.count = sending[c].snap[room.name].count
              /\ \A r \in DOMAIN sending[c].snap :
                   sending[c].answers[r] # "true" =>
                     \A room \in updates'[Len(updates')].rooms : room.name # r]_vars

\* one update lists a single room with two names and the count 2, another one
\* lists no room although the directory holds one
C30_Witness ==
    /\ \E n \in DOMAIN updates :
         \E room \in updates[n].rooms :
             /\ updates[n].rooms = {room}
             /\ room.count = 2 /\ Len(room.clients) = 2
    /\ \E n \in DOMAIN updates : updates[n].rooms = {}
    /\ DOMAIN rooms # {}

\* C31: the directory changes only in a step of the hub worker, taken while
\* the worker holds the write lock and no other task holds the lock; a task
\* reads the directory only while it holds the read lock, and then no task
\* holds the write lock (several tasks may hold the read lock together).
C31_DirectoryLocked ==
    /\ [](\A t \in Tasks :
            /\ tasks[t].held = "W" => t = "worker" /\ \A x \in Tasks \ {t} : tasks[x].held = "-"
            /\ tasks[t].at \in {"range", "unlock"} => tasks[t].held # "-"
            /\ tasks[t].at \in {"register", "add", "unregister", "drop"} => tasks[t].held = "W")
    /\ [][/\ rooms' # rooms =>
               /\ tasks["worker"].held = "W"
               /\ tasks'["worker"] # tasks["worker"]
               /\ \A x \in Tasks \ {"worker"} : tasks[x].held = "-"
          /\ \A t \in Tasks :
               tasks'[t].seen # tasks[t].seen =>
                 \/ tasks'[t] = NoTask
                 \/ /\ tasks[t].held = "R"
                    /\ \A x \in Tasks : tasks[x].held # "W"]_vars

\* the presence snapshot and the room listing have both read the directory
\* and hold the read lock together, while the worker is in its fan-out
C31_Witness ==
    /\ tasks["push"].at = "unlock" /\ tasks["push"].held = "R"
    /\ tasks["listing"].at = "unlock" /\ tasks["listing"].held = "R"
    /\ tasks["worker"].at = "range" /\ tasks["worker"].held = "R"
    /\ tasks["push"].seen # EmptyMap

\* a task is blocked posting on channel ch: the register or unregister of
\* connection k, or the envelope with ID k
Posting(ch, k) ==
    \E i \in DOMAIN sendq :
        /\ sendq[i].ch = ch
        /\ k = IF ch = "broadcast" THEN sendq[i].env.id ELSE sendq[i].c

\* C32: when every write returns, the hub worker is back at its select after
\* every request it receives, every task blocked posting a register, an
\* unregister or an envelope is received in the end, and no step of the
\* worker posts on a channel of the hub (the posts are steps of other tasks,
\* which leave the worker where it is).
C32_HubNeverDeadlocks ==
    /\ (hub.op # "idle") ~> (hub.op = "idle")
    /\ \A ch \in {"register", "unregister"} :
         \A k \in Conns : Posting(ch, k) ~> ~Posting(ch, k)
    /\ \A k \in 1..MaxEnv : Posting("broadcast", k) ~> ~Posting("broadcast", k)
    /\ [][Len(sendq') > Len(sendq) => hub' = hub]_vars

\* the worker is inside a handler while tasks are blocked posting an
\* unregister and an envelope
C32_Witness ==
    /\ hub.op # "idle"
    /\ \E k \in Conns : Posting("unregister", k)
    /\ \E k \in 1..MaxEnv : Posting("broadcast", k)

\* C33: the envelopes of two text frames of one connection reach every
\* member that receives both in the order the frames were sent (envelope IDs
\* count the frames in the order the read loop stored them).
C33_FramesInOrder ==
    \A d \in Conns : \A i, j \in 1..Len(recv[d]) :
        i < j => recv[d][i].id < recv[d][j].id

\* C34: the delete envelope of a removed message goes to the room that
\* contained the message: the connection whose delete call removes the row
\* is bound to the room of the row, so a connection that is written the
\* delete envelope of message Target is registered in Target's room.
C34_DeleteReachesMessageRoom ==
    /\ [](\A d \in Conns : \A i \in DOMAIN recv[d] :
            (recv[d][i] \in DeleteEnvelopes /\ updates[recv[d][i]].m = Target) =>
                client[d].room = "general")
    /\ [][\A c \in Conns :
            (call[c].at = "remove" /\ call'[c].at = "post") =>
                messages[call[c].m].room = client[c].room]_vars

\* C35: between two steps of the hub, a user with a connection registered
\* in a room has an active membership in that room.
C35_RegisteredIsActive ==
    \A c \in DOMAIN client : \A r \in DOMAIN rooms :
        (client[c].room = r /\ client[c].id \in DOMAIN rooms[r] /\ rooms[r][client[c].id] = c)
            => <<call[c].u, r>> \in db.member

\* the room_update envelopes written to connection c, in order
UpdatesTo(c) == SelectSeq(updates, LAMBDA u : u.type = "room_update" /\ u.to = c)

\* C36: when no presence fan-out and no push is left to run, the last
\* room_update written to every registered connection lists the directory as
\* it is.
C36_LastUpdateIsFinal ==
    (updq = 0 /\ pushes = {}) =>
        \A c \in Registered :
            /\ UpdatesTo(c) # <<>>
            /\ UpdatesTo(c)[Len(UpdatesTo(c))].rooms = Seen

\* C37: the hub closes a connection, and stores and posts its leave message,
\* at most once: an unregister that finds an entry under the connection's ID
\* (the only step that closes the connection and creates a leave envelope)
\* is never handled for a connection the hub has already closed, however many
\* unregister requests were posted for it.
C37_LeavesOnce ==
    [][(hub.op = "idle" /\ hub'.op = "unregister" /\ hub'.removed) =>
          ~closed[hub'.c]]_vars

\* C38: when the check of a frame ends with an error, the read loop goes
\* back to reading: the step after the answer stores nothing, creates and
\* posts no envelope, writes no denial, posts no unregister and leaves the
\* connection open and in the directory.
C38_CheckErrorDropsFrame ==
    [][\A c \in Conns :
         (pc[c] = "check" /\ frame[c] = "err" /\ pc'[c] # "check") =>
            /\ pc'[c] = "read"
            /\ UNCHANGED <<rooms, closed, sendq, spawnB, spawnU, nenv, nposted, updq,
                           recv, denials, messages, reactions, replies, db>>]_vars

\* a registered, open connection is back at reading after the check of its
\* frame failed, with nothing posted for it
C38_Witness ==
    \E c \in Conns :
        /\ pc[c] = "read" /\ frame[c] = "err"
        /\ ~closed[c] /\ Found(c) /\ denials[c] = 0
        /\ \A i \in DOMAIN sendq : sendq[i].c # c

\* C39: once the hub has closed a connection, no task starts a write on it:
\* neither the fan-out nor a presence push takes client.Mutex of a closed
\* connection to call WriteMessage.
C39_NoWriteAfterClose ==
    [][\A c \in Conns : (mu[c] = "free" /\ mu'[c] # "free") => ~closed[c]]_vars

\* the text of error e says that the database is locked or busy
SaysLocked(e) ==
    \E i \in DOMAIN e :
        \/ e[i] \in {"SQLITE_BUSY", "(SQLITE_BUSY)"}
        \/ i + 2 \in DOMAIN e /\ e[i] = "database" /\ e[i + 1] = "is" /\ e[i + 2] = "locked"

\* C40: retryOnDatabaseLock with maxRetries >= 1 calls the operation at least
\* once and at most maxRetries times; every call but the last returned a
\* lock error; it returns what the last call returned; and the last call
\* returned nil, or an error that is not a lock error, or was call number
\* maxRetries.
C40_RetryContract ==
    (retry.max >= 1) =>
        /\ Len(retry.calls) <= retry.max
        /\ \A k \in 1..(Len(retry.calls) - 1) : SaysLocked(retry.calls[k])
        /\ retry.at = "loop" => retry.i = Len(retry.calls) /\ retry.i < retry.max
        /\ retry.at = "done" =>
              /\ Len(retry.calls) >= 1
              /\ LET last == retry.calls[Len(retry.calls)]
                 IN  /\ retry.result = last
                     /\ \/ last = Nil
                        \/ ~SaysLocked(last)
                        \/ Len(retry.calls) = retry.max

\* the retries are used up: maxRetries >= 2 calls all returned a lock error,
\* and the last of them is returned
C40_Witness ==
    /\ retry.at = "done" /\ retry.max >= 2
    /\ Len(retry.calls) = retry.max
    /\ retry.result = <<"SQLITE_BUSY">>

====
